---- MODULE Spec2Model ----
(***************************************************************************)
(* Alert subsystem of openalgo-chart.                                      *)
(*                                                                         *)
(*   AlertNotification  (alert-notification.ts)  the notification          *)
(*                      dispatcher: toasts, their timers, webhook result   *)
(*                      toasts.                                            *)
(*   UserAlertsState    (state.ts, src/unnamed/part_005)  the alert store. *)
(*                                                                         *)
(*   Trigger evaluator  (specification, section 4.2)  the crossing state   *)
(*                      machine of one alert.                              *)
(*                                                                         *)
(*   AlertEditDialog    (alert-edit-dialog.ts)  the edit dialog: its       *)
(*                      overlay, the condition select, the price input,    *)
(*                      the notification settings panel.                   *)
(*   Time service       (src/unnamed/part_001)  the clock offset and its   *)
(*                      resync interval.                                   *)
(*   useLocalStorage    (useLocalStorage.js)  the persisted state hook     *)
(*                      and its debounced write.                           *)
(*   OptionChainModal   (src/unnamed/part_003)  the option chain modal:    *)
(*                      its selection and the requests it has in flight.   *)
(*                                                                         *)
(* Each component has its own specifications (SpecNotif, SpecWebhook,      *)
(* SpecChannels, SpecAttempts; SpecStore, SpecImport, SpecStoreLife,       *)
(* SpecIdGen, SpecUpdate; SpecEval, SpecRegion; SpecDialog, SpecOptions,   *)
(* SpecSettings; SpecTime; SpecHook, SpecRoundTrip; SpecModal); a step of  *)
(* one component leaves the others unchanged.                              *)
(***************************************************************************)
EXTENDS Integers, Sequences, FiniteSets, TLC

VARIABLES
    \* ---- AlertNotification ----
    _container,        \* "mounted" (an element under document.body) or "null"
    _notifications,    \* Map<alertId, toast>: sequence of <<key, value>> in insertion order
    _dismissTimeouts,  \* Map<alertId, timer id>
    toasts,            \* every toast element created by show(), by creation order
    timers,            \* every timer the dispatcher scheduled; the index is the timer id
    deliveries,        \* processAlertWebhook promises, by creation order
    resultToasts,      \* every webhook result toast created
    call,              \* the most recent call or callback: <<name, alertId, settings, alarm>>
    \* ---- UserAlertsState ----
    _alerts,           \* Map<id, UserAlertInfo>: sequence of <<key, value>> in insertion order
    _alertsArray,      \* the array alerts() returns
    subscribed,        \* the constructor's alertsChanged subscription is in place
    events,            \* the Delegate.fire calls of the most recent store call, in order
    seen,              \* for each of them, what alerts() returns to a listener it calls
    op,                \* the most recent store call: <<name, id, args>>, args the
                       \* price, condition and notifications given to updateAlert
    batch,             \* the argument of the most recent importAlerts call
    exported,          \* the value the most recent exportAlerts call returned
    \* ---- UserAlertsState._getNewId, statement by statement ----
    pc,                \* "idle", or "loop": an add call is at the while test (line 164)
    newId,             \* the local id of _getNewId
    addArgs,           \* <<price, condition>> of the add call in progress
    \* ---- Trigger evaluator ----
    evalAlert,         \* the alert under evaluation, with its crossing state
    ticks,             \* the observations evaluated so far: [price, trigger]
    zoneAlert,         \* the region alert under evaluation, with its inside flag
    zoneTicks,         \* its observations so far: [price, inside, trigger]
    \* ---- AlertEditDialog ----
    _overlay,          \* 0 (null) or the overlay element, an index of overlays
    _onSave,           \* 0 (null) or the callback given to show(): the number of that show()
    _currentData,      \* NoData (null) or the copy of the data given to show()
    _activeTab,        \* "settings", "message" or "notifications"
    _conditionSelect,  \* 0 (null) or the select element, an index of selects
    _priceInput,       \* 0 (null) or the input element, an index of inputs
    _dialogNotifications, \* AlertEditDialog._notifications (the dialog's own field)
    overlays,          \* every overlay created: [attached, select, input, panel]
                       \* (its content; panel: the fields of the notifications tab)
    selects,           \* every condition select created: [value, options]
    inputs,            \* every price input created: its value, in hundredths
    saved,             \* the onSave calls made: [callback, data, notifications]
    press,             \* the most recent dialog call or user event: <<name, overlay>>
    entered,           \* what the user entered in the notifications tab since show()
    \* ---- time service (timeService.js, src/unnamed/part_001) ----
    timeOffset,        \* the offset in use: 0, or the number of the sync call that set it
    lastSyncTime,      \* 0, or the number of the sync call that last succeeded
    isSyncing,         \* a syncTimeWithAPI call is between its entry and its finally
    isSynced,          \* a sync has succeeded
    syncIntervalId,    \* 0 (null) or the interval, an index of intervals
    intervals,         \* every interval setInterval created: TRUE while not cleared
    initCalls,         \* initTimeService calls: [pc, on]; pc "await" or "done", on the
                       \* sync call awaited (0: one that returned without a request)
    syncCalls,         \* syncTimeWithAPI calls that issued a request: "fetch", or
                       \* how the request ended ("ok", "failed", "throws")
    syncResult,        \* the value the syncTimeWithAPI promise resolved last was
                       \* resolved with: "true", "false", or "none" so far
    timeCall,          \* the most recent call or continuation: <<name, index>>
    afterDestroy,      \* destroyTimeService() has returned and initTimeService() has
                       \* not been called since
    \* ---- useLocalStorage (useLocalStorage.js), one key ----
    item,              \* localStorage.getItem(key): [present, text]
    hook,              \* the mounted hook: [mounted, default, serialize], serialize as
                       \* the hook computed it from its options
    value,             \* the hook's state
    isInitialMount,    \* isInitialMount.current
    timeoutRef,        \* timeoutRef.current: 0 (null) or a timer, an index of writeTimers
    writeTimers,       \* every timer the effect set: [state, value]; state "pending",
                       \* "fired" or "cleared", value the one its closure holds
    writes,            \* the setItem calls made: [value, text, default, serialize]
    lsCall,            \* the most recent step of the hook: "mount", "set", "write", ...
    \* ---- OptionChainModal (OptionChainModal.jsx, src/unnamed/part_003) ----
    isOpen,            \* the isOpen prop
    underlying,        \* the symbol of the underlying state
    selectedExpiry,    \* 0 (null) or the expiry selected
    availableExpiries, \* the list of expiries shown
    optionChain,       \* 0 (null) or the chain shown: the index in fetches of the
                       \* request that returned it
    isLoading,         \* the isLoading state
    fetches,           \* every request made: [kind, underlying, expiry, state], kind
                       \* "expiries" or "chain", state "pending", "ok" or "failed"
    modalStep          \* the most recent event of the modal: <<name, index>>

notifVars == <<_container, _notifications, _dismissTimeouts, toasts, timers,
               deliveries, resultToasts, call>>
storeVars == <<_alerts, _alertsArray, subscribed, events, seen, op, batch, exported>>
idVars == <<pc, newId, addArgs>>
evalVars == <<evalAlert, ticks>>
regionVars == <<zoneAlert, zoneTicks>>
dialogVars == <<_overlay, _onSave, _currentData, _activeTab, _conditionSelect,
                _priceInput, _dialogNotifications, overlays, selects, inputs, saved,
                press, entered>>
timeVars == <<timeOffset, lastSyncTime, isSyncing, isSynced, syncIntervalId, intervals,
              initCalls, syncCalls, syncResult, timeCall, afterDestroy>>
lsVars == <<item, hook, value, isInitialMount, timeoutRef, writeTimers, writes, lsCall>>
modalVars == <<isOpen, underlying, selectedExpiry, availableExpiries, optionChain,
               isLoading, fetches, modalStep>>
\* The components outside the dispatcher, the store and the scalar evaluator.
extraVars == <<regionVars, dialogVars, timeVars, lsVars, modalVars>>
vars == <<notifVars, storeVars, idVars, evalVars, extraVars>>
\* What a step of one component leaves alone.
outsideNotif == <<storeVars, idVars, evalVars, extraVars>>
outsideStore == <<notifVars, idVars, evalVars, extraVars>>
outsideEval == <<notifVars, storeVars, idVars, extraVars>>
outsideRegion == <<notifVars, storeVars, idVars, evalVars, dialogVars, timeVars, lsVars,
                   modalVars>>
outsideDialog == <<notifVars, storeVars, idVars, evalVars, regionVars, timeVars, lsVars,
                   modalVars>>
outsideTime == <<notifVars, storeVars, idVars, evalVars, regionVars, dialogVars, lsVars,
                 modalVars>>
outsideHook == <<notifVars, storeVars, idVars, evalVars, regionVars, dialogVars, timeVars,
                 modalVars>>
outsideModal == <<notifVars, storeVars, idVars, evalVars, regionVars, dialogVars, timeVars,
                  lsVars>>

(***************************************************************************)
(* Bounds of the model.                                                    *)
(***************************************************************************)
MaxSets == 3          \* changes of the hook's value in one behaviour
MaxRoundTrips == 1    \* values written and read back in one behaviour
MaxInits == 3         \* initTimeService() calls in one behaviour
MaxSyncs == 3         \* time-sync requests issued in one behaviour
MaxShows == 2         \* show() calls on one dialog in one behaviour
MaxOptionShows == 1   \* show() calls where every toolType and condition is tried
MaxSettingsShows == 1 \* show() calls where the notifications tab is edited
MaxFetches == 4       \* requests the option-chain modal makes in one behaviour
NumAlertIds == 2      \* alert ids the dispatcher is called with
MaxToasts == 3        \* toasts show() creates in one behaviour
MaxTimers == 6        \* timers scheduled in one behaviour
MaxDeliveries == 1    \* webhook deliveries started in one behaviour of the dispatcher
MaxWebhooks == 2      \* webhook deliveries started in one behaviour of the webhook channel
MaxWebhookTimers == 4 \* timers scheduled in one behaviour of the webhook channel
MaxChannelToasts == 1 \* toasts shown in one behaviour of the channels of show()
MaxBatch == 2         \* records in one importAlerts() call
MaxTicks == 4         \* observations the evaluator is given in one behaviour

AlertIds == 1..NumAlertIds

(***************************************************************************)
(* The JavaScript Map: keys keep their insertion order, set() on a key     *)
(* that is present replaces the value in place.                            *)
(***************************************************************************)
MapHas(m, k) == \E i \in 1..Len(m) : m[i][1] = k

MapGet(m, k) == m[CHOOSE i \in 1..Len(m) : m[i][1] = k][2]

\* A map whose set() adds an entry even when the key is present.
MapSetAppend(m, k, v) == Append(m, <<k, v>>)

MapSet(m, k, v) ==
    IF MapHas(m, k)
    THEN [i \in 1..Len(m) |-> IF m[i][1] = k THEN <<k, v>> ELSE m[i]]
    ELSE Append(m, <<k, v>>)

MapDelete(m, k) == SelectSeq(m, LAMBDA e : e[1] # k)

MapKeys(m) == {m[i][1] : i \in 1..Len(m)}

MapValues(m) == [i \in 1..Len(m) |-> m[i][2]]

(***************************************************************************)
(* AlertNotification                                                       *)
(***************************************************************************)
AutoDismissMs == 60000
DismissAnimationMs == 300

\* The delay each kind of timer is scheduled with.
Delay(kind) ==
    IF kind \in {"auto", "resultAuto"} THEN AutoDismissMs ELSE DismissAnimationMs

\* The dispatcher's mutable state as one value, for the methods that call
\* each other (show and destroy call dismiss).
DispatcherState ==
    [n |-> _notifications, dt |-> _dismissTimeouts, toasts |-> toasts, timers |-> timers]

\* A clearTimeout that cancels nothing.
ClearTimeoutNoop(ts, id) == ts

\* clearTimeout(id): a pending timer never fires; any other is left as it is.
ClearTimeout(ts, id) ==
    IF ts[id].state = "pending" THEN [ts EXCEPT ![id].state = "cleared"] ELSE ts

\* setTimeout(callback, delay): a new pending timer; its id is its index.
SetTimeout(ts, kind, alertId, toast) ==
    Append(ts, [kind |-> kind, alertId |-> alertId, toast |-> toast, state |-> "pending"])

\* dismiss(alertId), on a dispatcher state d.
DismissOp(d, alertId) ==
    LET d1 == IF MapHas(d.dt, alertId)
              THEN [d EXCEPT !.timers = ClearTimeout(d.timers, MapGet(d.dt, alertId)),
                             !.dt = MapDelete(d.dt, alertId)]
              ELSE d
    IN  IF MapHas(d1.n, alertId)
        THEN LET node == MapGet(d1.n, alertId)
             IN  [d1 EXCEPT !.toasts[node].dismissing = TRUE,
                            !.timers = SetTimeout(d1.timers, "removal", alertId, node)]
        ELSE d1

\* The toast branch of show(): replace a tracked toast, append the new one,
\* track it and schedule its auto-dismiss.
ShowToastOp(d, alertId) ==
    LET d1 == IF MapHas(d.n, alertId) THEN DismissOp(d, alertId) ELSE d
        node == Len(d1.toasts) + 1
        tid == Len(d1.timers) + 1
    IN  [n |-> MapSet(d1.n, alertId, node),
         dt |-> MapSet(d1.dt, alertId, tid),
         toasts |-> Append(d1.toasts, [alertId |-> alertId, inContainer |-> TRUE,
                                       dismissing |-> FALSE, removals |-> 0]),
         timers |-> SetTimeout(d1.timers, "auto", alertId, node)]

\* The dispatcher variables take the values of dispatcher state d.
SetDispatcher(d) ==
    /\ _notifications' = d.n
    /\ _dismissTimeouts' = d.dt
    /\ toasts' = d.toasts
    /\ timers' = d.timers

\* data.notificationSettings: absent, or an object with its flags.
NoSettings ==
    [defined |-> FALSE, showToast |-> "undefined", playSound |-> "undefined",
     webhookEnabled |-> "undefined"]

NotificationSettings ==
    {NoSettings} \cup
    [defined : {TRUE}, showToast : {"true", "false"}, playSound : {"true", "false"},
     webhookEnabled : {"true", "false"}]

\* The settings with the sound left on.
AudibleSettings == {s \in NotificationSettings : s.playSound # "false"}

\* settings?.playSound !== false
PlaySoundFlag(settings) == settings.playSound # "false"

\* What the page's audio does when _playAlarm() runs: "ok", "unsupported"
\* (neither window.AudioContext nor webkitAudioContext) or "throws" (the
\* constructor or a node call throws).
AudioStates == {"ok", "unsupported", "throws"}

\* _playAlarm() with nothing caught: the exception leaves show().
PlayAlarmUncaught(audio) ==
    CASE audio = "ok" -> "played"
      [] audio = "unsupported" -> "silent"
      [] audio = "throws" -> "thrown"

\* _playAlarm(): the alarm is started, or the method returns without a
\* sound, or the exception is caught and logged.
PlayAlarm(audio) ==
    CASE audio = "ok" -> "played"
      [] audio = "unsupported" -> "silent"
      [] audio = "throws" -> "failed"

\* settings?.showToast !== false
ShowToastFlag(settings) == settings.showToast # "false"

\* settings?.webhookEnabled === true, and sendWebhook && settings
SendWebhookFlag(settings) == settings.webhookEnabled = "true" /\ settings.defined


(***************************************************************************)
(* AlertEditDialog (alert-edit-dialog.ts): data and rendering.             *)
(***************************************************************************)
\* _currentData = null.  The fields of an absent object read as undefined.
NoData == [alertId |-> "undefined", symbol |-> "undefined", exchange |-> "undefined",
           price |-> 0, condition |-> "undefined", isTrendline |-> FALSE,
           toolType |-> "undefined"]

AlertConditions == <<"crossing", "crossing_up", "crossing_down",
                     "entering", "exiting", "inside", "outside">>

\* Prices are counted in thousandths, the text of a price input in
\* hundredths.  EmptyText is the text '' of an input, NaN what parseFloat
\* makes of it.
EmptyText == -1
NaN == -1

\* price.toFixed(2): the price rounded to two decimals, as text.  The
\* prices of the model are not halfway between two hundredths.
ToFixed2(price) == (price + 5) \div 10

\* parseFloat of the text of a price input.
ParseFloat(text) == IF text = EmptyText THEN NaN ELSE text * 10

\* The elements of a sequence that are in a set, in order (Array.filter).
RECURSIVE Filter(_, _)
Filter(seq, keep) ==
    IF seq = <<>> THEN <<>>
    ELSE IF Head(seq) \in keep THEN <<Head(seq)>> \o Filter(Tail(seq), keep)
    ELSE Filter(Tail(seq), keep)

\* A dropdown that offers every condition, whatever the toolType.
ConditionOptionsAll(toolType) == AlertConditions

\* The options of the condition dropdown, by the alert's toolType.
ConditionOptions(toolType) ==
    IF toolType = "vertical" THEN Filter(AlertConditions, {"crossing"})
    ELSE IF toolType = "shape"
    THEN Filter(AlertConditions, {"entering", "exiting", "inside", "outside"})
    ELSE Filter(AlertConditions, {"crossing", "crossing_up", "crossing_down"})

\* A select that always shows its first option.
SelectedValueFirst(options, condition) == options[1]

\* The value of a select whose options were appended in order, the one
\* equal to the condition marked selected: that option, or the first one
\* when none is marked.
SelectedValue(options, condition) ==
    IF \E k \in 1..Len(options) : options[k] = condition THEN condition ELSE options[1]

\* _renderSettingsTab: the select it creates and whether it creates a price
\* input, with the input's text.
RenderSettingsTab(data) ==
    [select |-> [value |-> SelectedValue(ConditionOptions(data.toolType), data.condition),
                 options |-> ConditionOptions(data.toolType)],
     hasInput |-> ~data.isTrendline,
     text |-> IF data = NoData THEN EmptyText ELSE ToFixed2(data.price)]

\* DEFAULT_NOTIFICATION_SETTINGS, for the fields of the model: the webhook
\* toggle and the mode radios (which have change listeners), the action
\* select and the quantity input (which have none and are read by Save).
DEFAULT_NOTIFICATION_SETTINGS ==
    [webhookEnabled |-> FALSE, webhookMode |-> "openalgo", openalgoAction |-> "BUY",
     openalgoQuantity |-> 1]

\* data.notifications is undefined.
NotGiven == [webhookEnabled |-> FALSE, webhookMode |-> "undefined",
             openalgoAction |-> "undefined", openalgoQuantity |-> 0]

\* The content of an overlay holds no notification fields.
NoPanel == [present |-> FALSE, enabled |-> FALSE, mode |-> "undefined",
            action |-> "undefined", quantity |-> EmptyText]

ActionOptions == <<"BUY", "SELL">>

\* _renderNotificationsTab: the toggle's checkbox, the checked radio, the
\* value of the action select and the text of the quantity input.
RenderNotificationsTab(n) ==
    [present |-> TRUE,
     enabled |-> n.webhookEnabled,
     mode |-> n.webhookMode,
     action |-> SelectedValue(ActionOptions, n.openalgoAction),
     quantity |-> IF n.openalgoQuantity = 0 THEN 1 ELSE n.openalgoQuantity]

\* parseInt(quantityInput.value) || 1, for a text of digits or ''.
QuantityOf(text) == IF text = EmptyText \/ text = 0 THEN 1 ELSE text

\* Nothing entered yet.
NothingEntered == [enabled |-> "none", mode |-> "none", action |-> "none", quantity |-> 0]


(***************************************************************************)
(* OptionChainModal (src/unnamed/part_003): the underlyings and what the   *)
(* service returns for them.                                               *)
(***************************************************************************)
\* The symbols of UNDERLYINGS, the first two.
UNDERLYINGS == <<"NIFTY", "BANKNIFTY">>

\* What getAvailableExpiries returns for an underlying when its search
\* succeeds: expiry dates, in chronological order.
ExpiriesOf(symbol) == IF symbol = "NIFTY" THEN <<1, 2>> ELSE <<3>>


(***************************************************************************)
(* useLocalStorage (useLocalStorage.js): values and their conversions.     *)
(***************************************************************************)
\* JavaScript values: their type and their literal text (for a string, its
\* characters).
JsValue(type, text) == [type |-> type, text |-> text]
JsTrue == JsValue("boolean", "true")
JsFalse == JsValue("boolean", "false")
JsNull == JsValue("null", "null")
JsNumber == JsValue("number", "123")
JsObject == JsValue("object", "{a:1}")
JsArray == JsValue("array", "[1,2]")
JsValues == {JsTrue, JsFalse, JsNull, JsNumber, JsObject, JsArray,
             JsValue("string", "true"), JsValue("string", "123"),
             JsValue("string", "hello")}

\* typeof v === 'object'
TypeofObject(v) == v.type \in {"object", "array", "null"}

\* String(v)
StringOf(v) ==
    IF v.type = "object" THEN "[object Object]"
    ELSE IF v = JsArray THEN "1,2"
    ELSE v.text

\* JSON.stringify(v), for the values it is called with (typeof 'object').
JsonStringify(v) == v.text

\* JSON.parse(text): the value the text is the literal of; it throws when
\* the text is none.
JsonParses(text) == \E v \in JsValues : v.type # "string" /\ v.text = text
JsonParse(text) == CHOOSE v \in JsValues : v.type # "string" /\ v.text = text

\* The initial state of the hook, read from localStorage (lines 25-50).
ReadStored(stored, default, serialize) ==
    IF ~stored.present THEN default
    ELSE IF stored.text = "true" THEN JsTrue
    ELSE IF stored.text = "false" THEN JsFalse
    ELSE IF serialize
    THEN IF JsonParses(stored.text) THEN JsonParse(stored.text)
         ELSE JsValue("string", stored.text)
    ELSE JsValue("string", stored.text)

\* The text the write timer stores (lines 68-72).
TextToStore(v, serialize) ==
    IF serialize /\ TypeofObject(v) THEN JsonStringify(v) ELSE StringOf(v)

\* options.serialize, with its default (line 18); the option is "true",
\* "false" or "undefined" (not given).
SerializeOption(option, default) ==
    IF option = "undefined" THEN TypeofObject(default) ELSE option = "true"

Init ==
    /\ _container = "mounted"
    /\ _notifications = <<>>
    /\ _dismissTimeouts = <<>>
    /\ toasts = <<>>
    /\ timers = <<>>
    /\ deliveries = <<>>
    /\ resultToasts = <<>>
    /\ call = <<"new", 0, NoSettings, "none">>
    /\ _alerts = <<>>
    /\ _alertsArray = <<>>
    /\ subscribed = TRUE
    /\ events = <<>>
    /\ seen = <<>>
    /\ op = <<"new", "undefined", <<>>>>
    /\ batch = <<>>
    /\ exported = <<>>
    /\ pc = "idle"
    /\ newId = "undefined"
    /\ addArgs = <<>>
    /\ evalAlert = [condition |-> "none", price |-> 0,
                    initialPricePosition |-> "undefined", lastPosition |-> "undefined"]
    /\ ticks = <<>>
    /\ zoneAlert = [condition |-> "none", inside |-> FALSE]
    /\ zoneTicks = <<>>
    /\ _overlay = 0
    /\ _onSave = 0
    /\ _currentData = NoData
    /\ _activeTab = "settings"
    /\ _conditionSelect = 0
    /\ _priceInput = 0
    /\ _dialogNotifications = DEFAULT_NOTIFICATION_SETTINGS
    /\ entered = NothingEntered
    /\ overlays = <<>>
    /\ selects = <<>>
    /\ inputs = <<>>
    /\ saved = <<>>
    /\ press = <<"new", 0>>
    /\ timeOffset = 0
    /\ lastSyncTime = 0
    /\ isSyncing = FALSE
    /\ isSynced = FALSE
    /\ syncIntervalId = 0
    /\ intervals = <<>>
    /\ initCalls = <<>>
    /\ syncCalls = <<>>
    /\ syncResult = "none"
    /\ timeCall = <<"load", 0>>
    /\ afterDestroy = FALSE
    /\ item = [present |-> FALSE, text |-> ""]
    /\ hook = [mounted |-> FALSE, default |-> JsNull, serialize |-> FALSE]
    /\ value = JsNull
    /\ isInitialMount = TRUE
    /\ timeoutRef = 0
    /\ writeTimers = <<>>
    /\ writes = <<>>
    /\ lsCall = "none"
    /\ isOpen = FALSE
    /\ underlying = UNDERLYINGS[1]
    /\ selectedExpiry = 0
    /\ availableExpiries = <<>>
    /\ optionChain = 0
    /\ isLoading = FALSE
    /\ fetches = <<>>
    /\ modalStep = <<"mount", 0>>

\* show(data): data.alertId and data.notificationSettings are the inputs.
show(alertId, settings, audio) ==
    IF _container = "null"
    THEN /\ call' = <<"show", alertId, settings, "none">>
         /\ UNCHANGED <<_container, _notifications, _dismissTimeouts, toasts, timers,
                        deliveries, resultToasts, outsideNotif>>
    ELSE LET d == IF ShowToastFlag(settings)
                  THEN ShowToastOp(DispatcherState, alertId)
                  ELSE DispatcherState
             alarm == IF PlaySoundFlag(settings) THEN PlayAlarm(audio) ELSE "none"
         IN  /\ Len(d.toasts) <= MaxToasts
             /\ Len(d.timers) <= MaxTimers
             /\ SetDispatcher(d)
             /\ deliveries' = IF SendWebhookFlag(settings) /\ alarm # "thrown"
                              THEN Append(deliveries, [alertId |-> alertId, state |-> "pending"])
                              ELSE deliveries
             /\ call' = <<"show", alertId, settings, alarm>>
             /\ UNCHANGED <<_container, resultToasts, outsideNotif>>

\* dismiss(alertId): the public method, also the toast's close button.
dismiss(alertId) ==
    LET d == DismissOp(DispatcherState, alertId)
    IN  /\ Len(d.timers) <= MaxTimers
        /\ SetDispatcher(d)
        /\ call' = <<"dismiss", alertId, NoSettings, "none">>
        /\ UNCHANGED <<_container, deliveries, resultToasts, outsideNotif>>

\* this._notifications.forEach((_, alertId) => this.dismiss(alertId))
RECURSIVE DismissAll(_, _)
DismissAll(d, keys) ==
    IF keys = <<>> THEN d ELSE DismissAll(DismissOp(d, Head(keys)), Tail(keys))

RECURSIVE ClearAll(_, _)
ClearAll(ts, ids) ==
    IF ids = <<>> THEN ts ELSE ClearAll(ClearTimeout(ts, Head(ids)), Tail(ids))

DestroyOp(d) ==
    LET d1 == [d EXCEPT !.timers = ClearAll(d.timers, MapValues(d.dt)), !.dt = <<>>]
    IN  DismissAll(d1, [i \in 1..Len(d1.n) |-> d1.n[i][1]])

destroy ==
    LET d == DestroyOp(DispatcherState)
    IN  /\ Len(d.timers) <= MaxTimers
        /\ SetDispatcher(d)
        /\ _container' = "null"
        /\ call' = <<"destroy", 0, NoSettings, "none">>
        /\ UNCHANGED <<deliveries, resultToasts, outsideNotif>>

\* The browser runs timers of equal delay in the order they were scheduled,
\* and a timer scheduled earlier with a shorter delay before a later, longer one.
CanFire(t) ==
    /\ timers[t].state = "pending"
    /\ \A u \in 1..(t - 1) :
           timers[u].state = "pending" => Delay(timers[u].kind) > Delay(timers[t].kind)

\* The auto-dismiss callback of show(): lines 187-190.
AutoDismissFires(t) ==
    LET fired == [timers EXCEPT ![t].state = "fired"]
        a == timers[t].alertId
        d == DismissOp([DispatcherState EXCEPT !.timers = fired,
                                               !.dt = MapDelete(_dismissTimeouts, a)], a)
    IN  /\ timers[t].kind = "auto"
        /\ CanFire(t)
        /\ Len(d.timers) <= MaxTimers
        /\ SetDispatcher(d)
        /\ call' = <<"autoDismiss", 0, NoSettings, "none">>
        /\ UNCHANGED <<_container, deliveries, resultToasts, outsideNotif>>

\* The removal callback of dismiss(): lines 400-405.
RemovalOp(d, t) ==
    LET node == d.timers[t].toast
        a == d.timers[t].alertId
        d1 == IF d.toasts[node].inContainer
              THEN [d EXCEPT !.toasts[node].inContainer = FALSE,
                             !.toasts[node].removals = @ + 1]
              ELSE d
    IN  [d1 EXCEPT !.n = MapDelete(d1.n, a), !.timers[t].state = "fired"]

RemovalFires(t) ==
    /\ timers[t].kind = "removal"
    /\ CanFire(t)
    /\ SetDispatcher(RemovalOp(DispatcherState, t))
    /\ call' = <<"removal", 0, NoSettings, "none">>
    /\ UNCHANGED <<_container, deliveries, resultToasts, outsideNotif>>

\* _showWebhookResultToast(success, message): a toast under document.body
\* and its 60 s timer, held by no field of the dispatcher.
ShowWebhookResultToast(success, message) ==
    /\ resultToasts' = Append(resultToasts, [success |-> success, message |-> message,
                                             inBody |-> TRUE, faded |-> FALSE,
                                             removals |-> 0, timer |-> Len(timers) + 1])
    /\ timers' = SetTimeout(timers, "resultAuto", 0, Len(resultToasts) + 1)

\* What processAlertWebhook's promise settles with: { success, message }
\* when it resolves, an Error when it rejects.
WebhookResult(outcome) ==
    CASE outcome = "success" -> [success |-> TRUE, message |-> "Order placed"]
      [] outcome = "failure" -> [success |-> FALSE, message |-> "HTTP 500"]
      [] outcome = "rejected" -> [error |-> "Failed to fetch"]

\* _sendWebhook without its catch block: a rejection shows no toast.
SendWebhookResumeNoCatch(outcome) ==
    IF outcome = "rejected"
    THEN UNCHANGED <<resultToasts, timers>>
    ELSE ShowWebhookResultToast(WebhookResult(outcome).success,
                                WebhookResult(outcome).message)

\* _sendWebhook after its await: lines 231-244.
SendWebhookResume(outcome) ==
    IF outcome = "rejected"
    THEN ShowWebhookResultToast(FALSE, WebhookResult(outcome).error)
    ELSE ShowWebhookResultToast(WebhookResult(outcome).success,
                                WebhookResult(outcome).message)

\* A delivery that did not succeed is issued again.
SettleDeliveryRetry(ds, i, outcome) ==
    IF outcome = "success" THEN [ds EXCEPT ![i].state = outcome]
    ELSE Append([ds EXCEPT ![i].state = outcome],
                [alertId |-> ds[i].alertId, state |-> "pending"])

\* The one processAlertWebhook call of _sendWebhook is over.
SettleDelivery(ds, i, outcome) == [ds EXCEPT ![i].state = outcome]

\* Deliveries settle in the order they were started.
AwaitingInOrder(i) ==
    /\ deliveries[i].state = "pending"
    /\ \A j \in 1..(i - 1) : deliveries[j].state # "pending"

\* _sendWebhook is suspended at its await for delivery i.
Awaiting(i) == deliveries[i].state = "pending"

\* The promise of processAlertWebhook settles: resolved with success true or
\* false, or rejected; _sendWebhook resumes after its await.
webhookSettles(i, outcome) ==
    /\ Awaiting(i)
    /\ Len(timers) < MaxTimers
    /\ deliveries' = SettleDelivery(deliveries, i, outcome)
    /\ SendWebhookResume(outcome)
    /\ call' = <<"settled", 0, NoSettings, "none">>
    /\ UNCHANGED <<_container, _notifications, _dismissTimeouts, toasts, outsideNotif>>

WebhookOutcomes == {"success", "failure", "rejected"}

\* The result toast's close button (the handler assigned last, lines 320-325).
closeResultToast(r) ==
    /\ resultToasts[r].inBody
    /\ Len(timers) < MaxTimers
    /\ resultToasts' = [resultToasts EXCEPT ![r].faded = TRUE]
    /\ timers' = SetTimeout(ClearTimeout(timers, resultToasts[r].timer), "resultRemoval", 0, r)
    /\ call' = <<"closeResult", 0, NoSettings, "none">>
    /\ UNCHANGED <<_container, _notifications, _dismissTimeouts, toasts, deliveries, outsideNotif>>

\* The result toast's 60 s callback, lines 313-317.
ResultAutoFires(t) ==
    /\ timers[t].kind = "resultAuto"
    /\ CanFire(t)
    /\ Len(timers) < MaxTimers
    /\ resultToasts' = [resultToasts EXCEPT ![timers[t].toast].faded = TRUE]
    /\ timers' = SetTimeout([timers EXCEPT ![t].state = "fired"], "resultRemoval", 0,
                            timers[t].toast)
    /\ call' = <<"resultAuto", 0, NoSettings, "none">>
    /\ UNCHANGED <<_container, _notifications, _dismissTimeouts, toasts, deliveries, outsideNotif>>

\* setTimeout(() => toast.remove(), 300)
ResultRemovalFires(t) ==
    /\ timers[t].kind = "resultRemoval"
    /\ CanFire(t)
    /\ resultToasts' = [resultToasts EXCEPT
                            ![timers[t].toast].inBody = FALSE,
                            ![timers[t].toast].removals = IF resultToasts[timers[t].toast].inBody
                                                          THEN @ + 1 ELSE @]
    /\ timers' = [timers EXCEPT ![t].state = "fired"]
    /\ call' = <<"resultRemoval", 0, NoSettings, "none">>
    /\ UNCHANGED <<_container, _notifications, _dismissTimeouts, toasts, deliveries, outsideNotif>>

NotifNext ==
    \/ \E a \in AlertIds, s \in AudibleSettings :
          show(a, s, "ok") /\ Len(deliveries') <= MaxDeliveries
    \/ \E a \in AlertIds : dismiss(a)
    \/ destroy
    \/ \E t \in 1..Len(timers) : AutoDismissFires(t)
    \/ \E t \in 1..Len(timers) : RemovalFires(t)
    \/ \E i \in 1..Len(deliveries), o \in WebhookOutcomes : webhookSettles(i, o)
    \/ \E r \in 1..Len(resultToasts) : closeResultToast(r)
    \/ \E t \in 1..Len(timers) : ResultAutoFires(t)
    \/ \E t \in 1..Len(timers) : ResultRemovalFires(t)

\* The webhook channel: show() with the webhook enabled, the deliveries
\* settling in any order, the result toasts and their timers.
WebhookSettings == {s \in AudibleSettings : SendWebhookFlag(s)}

WebhookNext ==
    \/ \E a \in AlertIds, s \in WebhookSettings :
          /\ show(a, s, "ok")
          /\ Len(deliveries') <= MaxWebhooks
          /\ Len(timers') <= MaxWebhookTimers
    \/ \E i \in 1..Len(deliveries), o \in WebhookOutcomes :
          webhookSettles(i, o) /\ Len(timers') <= MaxWebhookTimers
    \/ \E r \in 1..Len(resultToasts) :
          closeResultToast(r) /\ Len(timers') <= MaxWebhookTimers
    \/ \E t \in 1..Len(timers) :
          ResultAutoFires(t) /\ Len(timers') <= MaxWebhookTimers
    \/ \E t \in 1..Len(timers) : ResultRemovalFires(t)

SpecWebhook == Init /\ [][WebhookNext]_vars

\* The three channels of show(): every settings object, every state of the
\* page's audio, before and after destroy().
ChannelsNext ==
    \/ \E a \in AlertIds, s \in NotificationSettings, audio \in AudioStates :
          /\ show(a, s, audio)
          /\ Len(deliveries') <= MaxDeliveries
          /\ Len(toasts') <= MaxChannelToasts
    \/ destroy

SpecChannels == Init /\ [][ChannelsNext]_vars

\* The delivery attempts of a dispatcher: show() before and after
\* destroy(), and the deliveries settling.
AttemptsNext ==
    \/ \E a \in AlertIds, s \in AudibleSettings :
          /\ show(a, s, "ok")
          /\ Len(deliveries') <= MaxDeliveries
          /\ Len(toasts') <= MaxChannelToasts
    \/ destroy
    \/ \E i \in 1..Len(deliveries), o \in WebhookOutcomes : webhookSettles(i, o)

SpecAttempts == Init /\ [][AttemptsNext]_vars

(***************************************************************************)
(* UserAlertsState                                                         *)
(***************************************************************************)
\* The JavaScript value undefined (an absent field, an absent argument).
Undefined == "undefined"

\* Math.round(Math.random() * 1000000): the draws the model makes.
RandomDraws == {7, 11}

\* Number.prototype.toString(16), on the values drawn.
Hex(n) ==
    LET digit == <<"0", "1", "2", "3", "4", "5", "6", "7", "8", "9",
                   "a", "b", "c", "d", "e", "f">>
    IN  IF n < 16 THEN digit[n + 1] ELSE digit[(n \div 16) + 1] \o digit[(n % 16) + 1]

Ids == {Hex(n) : n \in RandomDraws}

\* Prices are numbers; NonNumeric stands for any value whose typeof is not
\* 'number' (a string, undefined), which only an imported record can carry.
NonNumeric == 0
Prices == {1, 2}

Conditions == {"crossing", "crossing_down"}

\* AlertNotificationSettings objects, which the store holds and never reads.
SettingsObjects == {"settingsA"}

\* A UserAlertInfo object (lines 38-54).
UserAlertInfo(id, price, condition, type, notifications, symbol, exchange) ==
    [id |-> id, price |-> price, condition |-> condition, type |-> type,
     toolRef |-> Undefined, initialPricePosition |-> Undefined,
     notifications |-> notifications, symbol |-> symbol, exchange |-> exchange]

\* The store's mutable state as one value: the map, the array of alerts()
\* and the events fired so far by the call in progress. An array element is
\* a reference: live tells whether it is the object the map now holds under
\* the same id (an in-place change of that object shows in the array).
StoreState == [alerts |-> _alerts, array |-> _alertsArray, events |-> <<>>,
               seen |-> <<>>]

\* What a caller of alerts() reads in the array: the objects as they are now.
Read(array) == [i \in 1..Len(array) |-> array[i].alert]

\* Array.prototype.sort((a, b) => b.price - a.price): stable, price descending.
RECURSIVE InsertByPrice(_, _)
InsertByPrice(sorted, x) ==
    IF sorted = <<>> THEN <<x>>
    ELSE IF Head(sorted).price >= x.price
         THEN <<Head(sorted)>> \o InsertByPrice(Tail(sorted), x)
         ELSE <<x>> \o sorted

RECURSIVE SortByPriceDesc(_)
SortByPriceDesc(values) ==
    IF values = <<>> THEN <<>>
    ELSE InsertByPrice(SortByPriceDesc(SubSeq(values, 1, Len(values) - 1)),
                       values[Len(values)])

\* _updateAlertsArray() without its sort: the map's own order.
UpdateAlertsArrayUnsorted(alerts) ==
    [i \in 1..Len(alerts) |-> [alert |-> alerts[i][2], live |-> TRUE]]

\* _updateAlertsArray()
UpdateAlertsArray(alerts) ==
    LET sorted == SortByPriceDesc(MapValues(alerts))
    IN  [i \in 1..Len(sorted) |-> [alert |-> sorted[i], live |-> TRUE]]

\* Delegate.fire of one of the three per-alert events.
Fire(s, name, id) == [s EXCEPT !.events = Append(@, <<name, id>>),
                               !.seen = Append(@, Read(s.array))]

\* this._alertsChanged.fire(): the constructor's subscriber, the first one
\* of the delegate, rebuilds the array; the listeners subscribed after it
\* are called next.
FireAlertsChanged(s) ==
    LET array == IF subscribed THEN UpdateAlertsArray(s.alerts) ELSE s.array
    IN  [s EXCEPT !.events = Append(@, <<"alertsChanged", Undefined>>),
                  !.array = array,
                  !.seen = Append(@, Read(array))]

\* The object the map holds under id is changed in place to alert.
MutateInPlace(s, id, alert) ==
    [s EXCEPT !.alerts = MapSet(@, id, alert),
              !.array = [i \in 1..Len(@) |->
                            IF @[i].live /\ @[i].alert.id = id
                            THEN [alert |-> alert, live |-> TRUE] ELSE @[i]]]

\* The map stops holding the objects under the ids of gone (deleted, or
\* replaced by another object): array elements for them are no longer live.
Unlink(array, gone) ==
    [i \in 1..Len(array) |->
        IF array[i].alert.id \in gone THEN [array[i] EXCEPT !.live = FALSE] ELSE array[i]]

\* _getNewId() without its while loop: the first draw is returned.
GetNewIdFirstDraw(alerts) == Ids

\* _getNewId(): the values the retry loop can return.
GetNewId(alerts) == {id \in Ids : ~MapHas(alerts, id)}

AddAlertWithConditionOp(s, id, price, condition) ==
    LET userAlert == UserAlertInfo(id, price, condition, Undefined, Undefined,
                                   Undefined, Undefined)
        s1 == [s EXCEPT !.alerts = MapSet(@, id, userAlert), !.array = Unlink(@, {id})]
    IN  FireAlertsChanged(Fire(s1, "alertAdded", id))

\* removeAlert() without this._alertRemoved.fire(id).
RemoveAlertOpNoEvent(s, id) ==
    IF ~MapHas(s.alerts, id) THEN s
    ELSE FireAlertsChanged([s EXCEPT !.alerts = MapDelete(@, id),
                                     !.array = Unlink(@, {id})])

RemoveAlertOp(s, id) ==
    IF ~MapHas(s.alerts, id) THEN s
    ELSE LET s1 == [s EXCEPT !.alerts = MapDelete(@, id), !.array = Unlink(@, {id})]
         IN  FireAlertsChanged(Fire(s1, "alertRemoved", id))

UpdateAlertPriceOp(s, id, newPrice) ==
    IF ~MapHas(s.alerts, id) THEN s
    ELSE LET alert == [MapGet(s.alerts, id) EXCEPT !.price = newPrice]
         IN  FireAlertsChanged(Fire(MutateInPlace(s, id, alert), "alertChanged", id))

\* updateAlert() without its test of notifications (line 144).
UpdateAlertOpAlwaysStores(s, id, newPrice, condition, notifications) ==
    IF ~MapHas(s.alerts, id) THEN s
    ELSE LET old == MapGet(s.alerts, id)
             alert == [old EXCEPT !.price = newPrice, !.condition = condition,
                                  !.notifications = notifications]
         IN  FireAlertsChanged(Fire(MutateInPlace(s, id, alert), "alertChanged", id))

UpdateAlertOp(s, id, newPrice, condition, notifications) ==
    IF ~MapHas(s.alerts, id) THEN s
    ELSE LET old == MapGet(s.alerts, id)
             alert == [old EXCEPT !.price = newPrice, !.condition = condition,
                                  !.notifications = IF notifications # Undefined
                                                    THEN notifications ELSE @]
         IN  FireAlertsChanged(Fire(MutateInPlace(s, id, alert), "alertChanged", id))

\* A SerializableAlert record (lines 60-70), with the optional triggered flag.
SerializableAlert(id, price, condition, notifications, symbol, exchange, triggered) ==
    [id |-> id, price |-> price, condition |-> condition, type |-> "price",
     createdAt |-> "now", notifications |-> notifications, symbol |-> symbol,
     exchange |-> exchange, triggered |-> triggered]

\* The record of exportAlerts() without its notifications line.
ExportRecordNoSettings(alert) ==
    SerializableAlert(alert.id, alert.price,
                      IF alert.condition = Undefined THEN "crossing" ELSE alert.condition,
                      Undefined, alert.symbol, alert.exchange, Undefined)

\* The record exportAlerts() pushes for one alert.
ExportRecord(alert) ==
    SerializableAlert(alert.id, alert.price,
                      IF alert.condition = Undefined THEN "crossing" ELSE alert.condition,
                      alert.notifications, alert.symbol, alert.exchange, Undefined)

\* exportAlerts() without its test of alert.type (line 178).
ExportOpAll(alerts) ==
    [i \in 1..Len(alerts) |-> ExportRecord(alerts[i][2])]

\* exportAlerts(): the value returned.
ExportOp(alerts) ==
    LET kept == SelectSeq(MapValues(alerts), LAMBDA alert : alert.type # "tool")
    IN  [i \in 1..Len(kept) |-> ExportRecord(kept[i])]

\* The skip test of importAlerts() without its line 206 (triggered).
ImportSkipsNoTriggered(alertData) ==
    \/ alertData.id \in {Undefined, ""}
    \/ alertData.price = NonNumeric

\* The loop body of importAlerts() skips the record (lines 203 and 206).
ImportSkips(alertData) ==
    \/ alertData.id \in {Undefined, ""}
    \/ alertData.price = NonNumeric
    \/ alertData.triggered = "true"

\* The UserAlertInfo importAlerts() builds from a record.
ImportedAlert(alertData) ==
    UserAlertInfo(alertData.id, alertData.price,
                  IF alertData.condition \in {Undefined, ""} THEN "crossing"
                  ELSE alertData.condition,
                  "price", alertData.notifications, alertData.symbol, alertData.exchange)

\* The for loop of importAlerts() with break in place of continue.
RECURSIVE ImportLoopBreak(_, _)
ImportLoopBreak(alerts, records) ==
    IF records = <<>> THEN alerts
    ELSE LET alertData == Head(records)
         IN  IF ImportSkips(alertData) THEN alerts
             ELSE ImportLoopBreak(MapSet(alerts, alertData.id, ImportedAlert(alertData)),
                                  Tail(records))

\* The for loop of importAlerts(), on the map.
RECURSIVE ImportLoop(_, _)
ImportLoop(alerts, records) ==
    IF records = <<>> THEN alerts
    ELSE LET alertData == Head(records)
         IN  ImportLoop(IF ImportSkips(alertData) THEN alerts
                        ELSE MapSet(alerts, alertData.id, ImportedAlert(alertData)),
                        Tail(records))

\* importAlerts(alerts): input.array is Array.isArray(alerts).
ImportAlertsOp(s, input) ==
    IF ~input.array THEN s
    ELSE LET set == {input.items[i].id : i \in {j \in 1..Len(input.items) :
                                                  ~ImportSkips(input.items[j])}}
             s1 == [s EXCEPT !.alerts = ImportLoop(@, input.items),
                             !.array = Unlink(@, set)]
         IN  IF Len(input.items) > 0 THEN FireAlertsChanged(s1) ELSE s1

\* clearAlerts() firing alertsChanged once per alert cleared.
RECURSIVE FireAlertsChangedTimes(_, _)
FireAlertsChangedTimes(s, n) ==
    IF n = 0 THEN s ELSE FireAlertsChangedTimes(FireAlertsChanged(s), n - 1)

ClearAlertsOpFirePerAlert(s) ==
    IF Len(s.alerts) = 0 THEN s
    ELSE FireAlertsChangedTimes([s EXCEPT !.alerts = <<>>,
                                          !.array = Unlink(@, MapKeys(s.alerts))],
                                Len(s.alerts))

ClearAlertsOp(s) ==
    IF Len(s.alerts) = 0 THEN s
    ELSE FireAlertsChanged([s EXCEPT !.alerts = <<>>,
                                     !.array = Unlink(@, MapKeys(s.alerts))])

\* The store variables take the values of store state s after the call
\* named, made with args.
SetStoreOf(s, name, id, args) ==
    /\ _alerts' = s.alerts
    /\ _alertsArray' = s.array
    /\ events' = s.events
    /\ seen' = s.seen
    /\ op' = <<name, id, args>>

SetStore(s, name, id) == SetStoreOf(s, name, id, <<>>)

\* The records importAlerts() is given in the model: a complete record, a
\* record with only id and price, and the three kinds the loop skips.
FullRecord(id) ==
    SerializableAlert(id, 1, "crossing_down", "settingsB", "NIFTY", "NSE", "false")

BareRecord(id) ==
    SerializableAlert(id, 2, Undefined, Undefined, Undefined, Undefined, Undefined)

ImportRecords ==
    {FullRecord(Hex(7)),
     BareRecord(Hex(11)),
     [BareRecord(Hex(7)) EXCEPT !.id = Undefined],
     [FullRecord(Hex(11)) EXCEPT !.price = NonNumeric],
     [FullRecord(Hex(11)) EXCEPT !.triggered = "true"]}

RECURSIVE SeqsUpTo(_, _)
SeqsUpTo(S, n) ==
    IF n = 0 THEN {<<>>}
    ELSE LET shorter == SeqsUpTo(S, n - 1)
         IN  shorter \cup {Append(q, x) : q \in shorter, x \in S}

NotAnArray == [array |-> FALSE, items |-> <<>>]

ArrayOf(items) == [array |-> TRUE, items |-> items]

\* Every batch of at most MaxBatch of the records, and a value that is no array.
ImportInputs == {NotAnArray} \cup {ArrayOf(b) : b \in SeqsUpTo(ImportRecords, MaxBatch)}

\* The batches given where the other calls vary: none, one or two records.
FewImportInputs ==
    {NotAnArray, ArrayOf(<<>>), ArrayOf(<<FullRecord(Hex(7))>>),
     ArrayOf(<<BareRecord(Hex(11)), FullRecord(Hex(11))>>),
     ArrayOf(<<[FullRecord(Hex(11)) EXCEPT !.triggered = "true"], BareRecord(Hex(7))>>)}

addAlert(price) ==
    \E id \in GetNewId(_alerts) :
        /\ SetStore(AddAlertWithConditionOp(StoreState, id, price, "crossing"),
                    "addAlert", id)
        /\ batch' = <<>>
        /\ exported' = <<>>
        /\ UNCHANGED <<subscribed, outsideStore>>

addAlertWithCondition(price, condition) ==
    \E id \in GetNewId(_alerts) :
        /\ SetStore(AddAlertWithConditionOp(StoreState, id, price, condition),
                    "addAlertWithCondition", id)
        /\ batch' = <<>>
        /\ exported' = <<>>
        /\ UNCHANGED <<subscribed, outsideStore>>

removeAlert(id) ==
    /\ SetStore(RemoveAlertOp(StoreState, id), "removeAlert", id)
    /\ batch' = <<>>
    /\ exported' = <<>>
    /\ UNCHANGED <<subscribed, outsideStore>>

updateAlertPrice(id, newPrice) ==
    /\ SetStore(UpdateAlertPriceOp(StoreState, id, newPrice), "updateAlertPrice", id)
    /\ batch' = <<>>
    /\ exported' = <<>>
    /\ UNCHANGED <<subscribed, outsideStore>>

updateAlert(id, newPrice, condition, notifications) ==
    /\ SetStoreOf(UpdateAlertOp(StoreState, id, newPrice, condition, notifications),
                  "updateAlert", id, <<newPrice, condition, notifications>>)
    /\ batch' = <<>>
    /\ exported' = <<>>
    /\ UNCHANGED <<subscribed, outsideStore>>

importAlerts(input) ==
    /\ SetStore(ImportAlertsOp(StoreState, input), "importAlerts", Undefined)
    /\ batch' = input.items
    /\ exported' = <<>>
    /\ UNCHANGED <<subscribed, outsideStore>>

clearAlerts ==
    /\ SetStore(ClearAlertsOp(StoreState), "clearAlerts", Undefined)
    /\ batch' = <<>>
    /\ exported' = <<>>
    /\ UNCHANGED <<subscribed, outsideStore>>

exportAlerts ==
    /\ SetStore(StoreState, "exportAlerts", Undefined)
    /\ batch' = <<>>
    /\ exported' = ExportOp(_alerts)
    /\ UNCHANGED <<subscribed, outsideStore>>

\* UserAlertsState.destroy(): this._alertsChanged.unsubscribeAll(this)
destroyStore ==
    /\ SetStore(StoreState, "destroy", Undefined)
    /\ subscribed' = FALSE
    /\ batch' = <<>>
    /\ exported' = <<>>
    /\ UNCHANGED outsideStore

\* The owner of a drawn tool binds it to an alert of the store: the alert
\* object becomes a tool alert holding the reference. No store method does
\* this; the object is changed in place and no event is fired.
bindTool(id) ==
    /\ MapHas(_alerts, id)
    /\ LET alert == [MapGet(_alerts, id) EXCEPT !.type = "tool", !.toolRef = "lineTool"]
       IN  SetStore(MutateInPlace(StoreState, id, alert), "bindTool", id)
    /\ batch' = <<>>
    /\ exported' = <<>>
    /\ UNCHANGED <<subscribed, outsideStore>>

\* The engine records on an alert of the store where the price was when
\* the alert was created: the object is changed in place, no event is fired.
setInitialPricePosition(id, position) ==
    /\ MapHas(_alerts, id)
    /\ LET alert == [MapGet(_alerts, id) EXCEPT !.initialPricePosition = position]
       IN  SetStore(MutateInPlace(StoreState, id, alert), "setInitialPricePosition", id)
    /\ batch' = <<>>
    /\ exported' = <<>>
    /\ UNCHANGED <<subscribed, outsideStore>>

\* The store with every call, and the owner of the tools.
StoreNext ==
    \/ \E p \in Prices : addAlert(p)
    \/ \E p \in Prices, c \in Conditions : addAlertWithCondition(p, c)
    \/ \E id \in Ids : removeAlert(id)
    \/ \E id \in Ids, p \in Prices : updateAlertPrice(id, p)
    \/ \E id \in Ids, p \in Prices, c \in Conditions,
          n \in SettingsObjects \cup {Undefined} : updateAlert(id, p, c, n)
    \/ \E input \in FewImportInputs : importAlerts(input)
    \/ clearAlerts
    \/ exportAlerts
    \/ \E id \in Ids : bindTool(id)

\* The store under every import batch.
ImportNext ==
    \/ \E input \in ImportInputs : importAlerts(input)
    \/ \E p \in Prices : addAlert(p)
    \/ \E id \in Ids : removeAlert(id)
    \/ clearAlerts

\* The store with its seven mutating calls and destroy().
StoreLifeNext ==
    \/ \E p \in Prices : addAlert(p)
    \/ \E p \in Prices : addAlertWithCondition(p, "crossing_down")
    \/ \E id \in Ids : removeAlert(id)
    \/ \E id \in Ids, p \in Prices : updateAlertPrice(id, p)
    \/ \E id \in Ids, p \in Prices : updateAlert(id, p, "crossing", Undefined)
    \/ \E input \in FewImportInputs : importAlerts(input)
    \/ clearAlerts
    \/ destroyStore

\* The store whose alerts the engine and the owner of the tools have
\* written to, under updateAlert() and importAlerts().
UpdateNext ==
    \/ \E p \in Prices : addAlert(p)
    \/ \E id \in Ids, p \in Prices, c \in Conditions,
          n \in SettingsObjects \cup {Undefined} : updateAlert(id, p, c, n)
    \/ \E input \in FewImportInputs : importAlerts(input)
    \/ \E id \in Ids : bindTool(id)
    \/ \E id \in Ids : setInitialPricePosition(id, "above")

SpecStore == Init /\ [][StoreNext]_vars

SpecUpdate == Init /\ [][UpdateNext]_vars

SpecImport == Init /\ [][ImportNext]_vars

SpecStoreLife == Init /\ [][StoreLifeNext]_vars

SpecNotif == Init /\ [][NotifNext]_vars

(***************************************************************************)
(* _getNewId statement by statement: an add call draws an id (line 163),   *)
(* draws again while the map holds it (lines 164-166), then adds the alert *)
(* (lines 113-121). The loop is synchronous: no other call runs meanwhile. *)
(***************************************************************************)
\* addAlertWithCondition entered: let id = Math.round(Math.random() * 1000000).toString(16)
beginAdd(price, condition) ==
    /\ pc = "idle"
    /\ \E n \in RandomDraws : newId' = Hex(n)
    /\ pc' = "loop"
    /\ addArgs' = <<price, condition>>
    /\ UNCHANGED <<storeVars, notifVars, evalVars, extraVars>>

\* The body of the while loop, when the draw is n.
retryDraw(n) ==
    /\ pc = "loop"
    /\ MapHas(_alerts, newId)
    /\ newId' = Hex(n)
    /\ UNCHANGED <<pc, addArgs, storeVars, notifVars, evalVars, extraVars>>

\* The while test fails: return id, and the rest of addAlertWithCondition.
endAdd ==
    /\ pc = "loop"
    /\ ~MapHas(_alerts, newId)
    /\ SetStore(AddAlertWithConditionOp(StoreState, newId, addArgs[1], addArgs[2]),
                "addAlertWithCondition", newId)
    /\ batch' = <<>>
    /\ exported' = <<>>
    /\ pc' = "idle"
    /\ newId' = Undefined
    /\ addArgs' = <<>>
    /\ UNCHANGED <<subscribed, notifVars, evalVars, extraVars>>

IdGenNext ==
    \/ \E p \in Prices, c \in Conditions : beginAdd(p, c)
    \/ \E n \in RandomDraws : retryDraw(n)
    \/ endAdd
    \/ pc = "idle" /\ \E id \in Ids : removeAlert(id)
    \/ pc = "idle" /\ \E input \in FewImportInputs : importAlerts(input)
    \/ pc = "idle" /\ clearAlerts

\* The call in progress keeps running, and Math.random() yields every
\* candidate again and again.
IdGenFairness ==
    /\ WF_vars(endAdd)
    /\ \A n \in RandomDraws : WF_vars(retryDraw(n))

SpecIdGen == Init /\ [][IdGenNext]_vars /\ IdGenFairness

(***************************************************************************)
(* Trigger evaluator. Its code is not among the sources; it is modelled    *)
(* from section 4.2 of the specification and from the comment on           *)
(* UserAlertInfo.initialPricePosition (state.ts, lines 44-48).             *)
(***************************************************************************)
ScalarConditions == {"crossing", "crossing_up", "crossing_down"}

\* Thresholds of the alerts evaluated, and the prices observed: below,
\* between and above the thresholds.
Thresholds == {2, 4}
TickPrices == {1, 3, 5}

\* The position of an observed price relative to the threshold.
PositionOf(price, threshold) == IF price > threshold THEN "above" ELSE "below"

\* A matcher without the direction filter: any transition matches.
MatchesAnyDirection(condition, from, to) == from # to

\* The transition between two positions matches the condition.
Matches(condition, from, to) ==
    /\ from # to
    /\ \/ condition = "crossing"
       \/ condition = "crossing_up" /\ from = "below" /\ to = "above"
       \/ condition = "crossing_down" /\ from = "above" /\ to = "below"

\* The position is the one the condition triggers on.
OnTriggerSide(condition, position) ==
    \/ condition = "crossing"
    \/ condition = "crossing_up" /\ position = "above"
    \/ condition = "crossing_down" /\ position = "below"

\* An evaluator that treats the first observation as a crossing when the
\* price is found on the triggering side.
EvaluateScalarNoSuppression(alert, price) ==
    LET position == PositionOf(price, alert.price)
    IN  IF alert.lastPosition = "undefined"
        THEN [alert |-> [alert EXCEPT !.initialPricePosition = position,
                                      !.lastPosition = position],
              trigger |-> OnTriggerSide(alert.condition, position)]
        ELSE IF Matches(alert.condition, alert.lastPosition, position)
        THEN [alert |-> [alert EXCEPT !.initialPricePosition = "unknown",
                                      !.lastPosition = position],
              trigger |-> TRUE]
        ELSE [alert |-> [alert EXCEPT !.lastPosition = position], trigger |-> FALSE]

\* A one-shot evaluator: once the alert has triggered it never triggers again.
EvaluateScalarOneShot(alert, price) ==
    LET position == PositionOf(price, alert.price)
    IN  IF alert.lastPosition = "undefined"
        THEN [alert |-> [alert EXCEPT !.initialPricePosition = position,
                                      !.lastPosition = position],
              trigger |-> FALSE]
        ELSE IF /\ alert.initialPricePosition # "unknown"
                /\ Matches(alert.condition, alert.lastPosition, position)
        THEN [alert |-> [alert EXCEPT !.initialPricePosition = "unknown",
                                      !.lastPosition = position],
              trigger |-> TRUE]
        ELSE [alert |-> [alert EXCEPT !.lastPosition = position], trigger |-> FALSE]

\* One evaluation of a scalar alert: the alert with its crossing state
\* updated, and whether a trigger is emitted.
EvaluateScalar(alert, price) ==
    LET position == PositionOf(price, alert.price)
    IN  IF alert.lastPosition = "undefined"
        THEN [alert |-> [alert EXCEPT !.initialPricePosition = position,
                                      !.lastPosition = position],
              trigger |-> FALSE]
        ELSE IF Matches(alert.condition, alert.lastPosition, position)
        THEN [alert |-> [alert EXCEPT !.initialPricePosition = "unknown",
                                      !.lastPosition = position],
              trigger |-> TRUE]
        ELSE [alert |-> [alert EXCEPT !.lastPosition = position], trigger |-> FALSE]

\* An alert is created on the chart; the evaluator has not seen it yet.
placeAlert(condition, price) ==
    /\ evalAlert.condition = "none"
    /\ evalAlert' = [condition |-> condition, price |-> price,
                     initialPricePosition |-> "undefined", lastPosition |-> "undefined"]
    /\ UNCHANGED <<ticks, outsideEval>>

\* A price update arrives and the alert is evaluated against it.
tick(price) ==
    /\ evalAlert.condition \in ScalarConditions
    /\ Len(ticks) < MaxTicks
    /\ LET r == EvaluateScalar(evalAlert, price)
       IN  /\ evalAlert' = r.alert
           /\ ticks' = Append(ticks, [price |-> price, trigger |-> r.trigger])
    /\ UNCHANGED outsideEval

EvalNext ==
    \/ \E c \in ScalarConditions, p \in Thresholds : placeAlert(c, p)
    \/ \E p \in TickPrices : tick(p)

SpecEval == Init /\ [][EvalNext]_vars

(***************************************************************************)
(* Trigger evaluator, region conditions (specification, section 4.2).      *)
(***************************************************************************)
RegionConditions == {"entering", "exiting", "inside", "outside"}

\* The zone of the shape the alert is bound to: the prices strictly between
\* its two edges.  TickPrices lie below, inside and above it.
Zone == [low |-> 2, high |-> 4]

\* The zone test, recomputed from the geometry on each tick.
InZone(price) == price > Zone.low /\ price < Zone.high

\* A region evaluator that treats every condition as edge-sensitive.
EvaluateRegionEdgeOnly(alert, price) ==
    LET now == InZone(price)
    IN  [alert |-> [alert EXCEPT !.inside = now],
         trigger |-> IF alert.condition \in {"entering", "inside"}
                     THEN ~alert.inside /\ now
                     ELSE alert.inside /\ ~now]

\* One evaluation of a region alert: the alert with its inside flag
\* recomputed, and whether a trigger is emitted.
EvaluateRegion(alert, price) ==
    LET now == InZone(price)
    IN  [alert |-> [alert EXCEPT !.inside = now],
         trigger |-> CASE alert.condition = "inside" -> now
                       [] alert.condition = "outside" -> ~now
                       [] alert.condition = "entering" -> ~alert.inside /\ now
                       [] alert.condition = "exiting" -> alert.inside /\ ~now]

\* A region alert is created on a shape.  The specification does not give
\* the value of the inside flag before the first observation: either.
placeZoneAlert(condition, inside) ==
    /\ zoneAlert.condition = "none"
    /\ zoneAlert' = [condition |-> condition, inside |-> inside]
    /\ UNCHANGED <<zoneTicks, outsideRegion>>

\* A price update arrives and the region alert is evaluated against it.
zoneTick(price) ==
    /\ zoneAlert.condition \in RegionConditions
    /\ Len(zoneTicks) < MaxTicks
    /\ LET r == EvaluateRegion(zoneAlert, price)
       IN  /\ zoneAlert' = r.alert
           /\ zoneTicks' = Append(zoneTicks, [price |-> price, inside |-> r.alert.inside,
                                              trigger |-> r.trigger])
    /\ UNCHANGED outsideRegion

RegionNext ==
    \/ \E c \in RegionConditions, b \in BOOLEAN : placeZoneAlert(c, b)
    \/ \E p \in TickPrices : zoneTick(p)

SpecRegion == Init /\ [][RegionNext]_vars

(***************************************************************************)
(* AlertEditDialog (alert-edit-dialog.ts): show, hide and the user's       *)
(* events on the elements of an overlay that is in the document.           *)
(***************************************************************************)
\* The state of the dialog object and of the elements it created.
DialogState == [overlay |-> _overlay, onSave |-> _onSave, data |-> _currentData,
                tab |-> _activeTab, select |-> _conditionSelect, input |-> _priceInput,
                notifications |-> _dialogNotifications,
                overlays |-> overlays, selects |-> selects, inputs |-> inputs,
                saved |-> saved]

SetDialog(d) ==
    /\ _overlay' = d.overlay
    /\ _onSave' = d.onSave
    /\ _currentData' = d.data
    /\ _activeTab' = d.tab
    /\ _conditionSelect' = d.select
    /\ _priceInput' = d.input
    /\ _dialogNotifications' = d.notifications
    /\ overlays' = d.overlays
    /\ selects' = d.selects
    /\ inputs' = d.inputs
    /\ saved' = d.saved

\* _renderTabContent into the content of overlay o: the settings tab
\* creates a select and, unless the alert is a trendline alert, a price
\* input, and stores them in _conditionSelect and _priceInput; the other
\* tabs create neither and leave both fields as they are.  The
\* notifications tab creates its fields from _notifications.
RenderTabContent(d, o) ==
    IF d.tab = "settings"
    THEN LET r == RenderSettingsTab(d.data)
             s == Len(d.selects) + 1
             i == Len(d.inputs) + 1
         IN  [d EXCEPT !.selects = Append(@, r.select),
                       !.select = s,
                       !.inputs = IF r.hasInput THEN Append(@, r.text) ELSE @,
                       !.input = IF r.hasInput THEN i ELSE @,
                       !.overlays[o] = [@ EXCEPT !.select = s,
                                                 !.input = IF r.hasInput THEN i ELSE 0,
                                                 !.panel = NoPanel]]
    ELSE [d EXCEPT !.overlays[o] =
             [@ EXCEPT !.select = 0, !.input = 0,
                       !.panel = IF d.tab = "notifications"
                                 THEN RenderNotificationsTab(d.notifications)
                                 ELSE NoPanel]]

\* show(data, onSave): the state after it.  The data of the model is
\* AlertEditData without its notifications, which are n.
ShowOp(d, data, n) ==
    LET o == Len(d.overlays) + 1
        opened == [d EXCEPT !.data = data,
                            !.onSave = o,
                            !.tab = "settings",
                            !.notifications = IF n = NotGiven
                                              THEN DEFAULT_NOTIFICATION_SETTINGS ELSE n,
                            !.overlay = o,
                            !.overlays = Append(@, [attached |-> TRUE, select |-> 0,
                                                    input |-> 0, panel |-> NoPanel])]
    IN  RenderTabContent(opened, o)

\* hide(): the state after it.
HideOp(d) ==
    [d EXCEPT !.overlays = IF d.overlay # 0
                           THEN [@ EXCEPT ![d.overlay].attached = FALSE]
                           ELSE @,
              !.overlay = 0,
              !.onSave = 0,
              !.data = NoData]

\* document.getElementById for the ids of the notifications tab: the
\* fields of the first overlay in the document that shows that tab, or
\* NoPanel (null) when none does.
GetElementById(d) ==
    LET shown == {o \in 1..Len(d.overlays) :
                     d.overlays[o].attached /\ d.overlays[o].panel.present}
    IN  IF shown = {} THEN NoPanel
        ELSE d.overlays[CHOOSE o \in shown : \A q \in shown : o <= q].panel

\* _handleSave, lines 851-862: the action and the quantity are copied into
\* _notifications from the elements found in the document.
CollectFields(d) ==
    LET p == GetElementById(d)
    IN  IF p.present
        THEN [d.notifications EXCEPT !.openalgoAction = p.action,
                                     !.openalgoQuantity = QuantityOf(p.quantity)]
        ELSE d.notifications

\* A save handler that leaves the dialog open.
HandleSaveStaysOpen(d) ==
    IF d.onSave = 0 \/ d.data = NoData
    THEN d
    ELSE [d EXCEPT !.notifications = CollectFields(d),
                   !.saved = Append(@,
                [callback |-> d.onSave,
                 data |-> [d.data EXCEPT
                    !.condition = d.selects[d.select].value,
                    !.price = IF d.input # 0 THEN ParseFloat(d.inputs[d.input])
                              ELSE d.data.price],
                 notifications |-> CollectFields(d)])]

\* _handleSave(): the state after it.  _conditionSelect is set by every
\* show() and each select has a non-empty value, so the condition is the
\* select's value.
HandleSave(d) ==
    IF d.onSave = 0 \/ d.data = NoData
    THEN d
    ELSE HideOp([d EXCEPT !.notifications = CollectFields(d),
                          !.saved = Append(@,
                [callback |-> d.onSave,
                 data |-> [d.data EXCEPT
                    !.condition = d.selects[d.select].value,
                    !.price = IF d.input # 0 THEN ParseFloat(d.inputs[d.input])
                              ELSE d.data.price],
                 notifications |-> CollectFields(d)])])

\* show(data, onSave), data.notifications being n.
showDialog(data, n) ==
    /\ SetDialog(ShowOp(DialogState, data, n))
    /\ press' = <<"show", Len(overlays) + 1>>
    /\ entered' = NothingEntered
    /\ UNCHANGED outsideDialog

\* hide(), called by the owner of the dialog.
hideDialog ==
    /\ SetDialog(HideOp(DialogState))
    /\ press' = <<"hide", 0>>
    /\ UNCHANGED <<entered, outsideDialog>>

\* Overlay o is in the document: the user can reach its elements.
InDocument(o) == o \in 1..Len(overlays) /\ overlays[o].attached

\* The Save button of overlay o.
pressSave(o) ==
    /\ InDocument(o)
    /\ SetDialog(HandleSave(DialogState))
    /\ press' = <<"save", o>>
    /\ UNCHANGED <<entered, outsideDialog>>

\* The Cancel button of overlay o.
pressCancel(o) ==
    /\ InDocument(o)
    /\ SetDialog(HideOp(DialogState))
    /\ press' = <<"cancel", o>>
    /\ UNCHANGED <<entered, outsideDialog>>

\* The close button in the header of overlay o.
pressClose(o) ==
    /\ InDocument(o)
    /\ SetDialog(HideOp(DialogState))
    /\ press' = <<"close", o>>
    /\ UNCHANGED <<entered, outsideDialog>>

\* A click on overlay o itself, outside the dialog box.
clickOverlay(o) ==
    /\ InDocument(o)
    /\ SetDialog(IF o = _overlay THEN HideOp(DialogState) ELSE DialogState)
    /\ press' = <<"overlay", o>>
    /\ UNCHANGED <<entered, outsideDialog>>

\* A click on a tab of overlay o.
selectTab(o, tab) ==
    /\ InDocument(o)
    /\ SetDialog(RenderTabContent([DialogState EXCEPT !.tab = tab], o))
    /\ press' = <<"tab", o>>
    /\ UNCHANGED <<entered, outsideDialog>>

\* The user picks an option of the condition dropdown shown in overlay o.
chooseCondition(o, k) ==
    /\ InDocument(o)
    /\ overlays[o].select # 0
    /\ k \in 1..Len(selects[overlays[o].select].options)
    /\ selects' = [selects EXCEPT ![overlays[o].select].value =
                                     selects[overlays[o].select].options[k]]
    /\ press' = <<"condition", o>>
    /\ UNCHANGED <<_overlay, _onSave, _currentData, _activeTab, _conditionSelect,
                   _priceInput, _dialogNotifications, overlays, inputs, saved, entered,
                   outsideDialog>>

\* The user types a price into the price input shown in overlay o.
typePrice(o, text) ==
    /\ InDocument(o)
    /\ overlays[o].input # 0
    /\ inputs' = [inputs EXCEPT ![overlays[o].input] = text]
    /\ press' = <<"price", o>>
    /\ UNCHANGED <<_overlay, _onSave, _currentData, _activeTab, _conditionSelect,
                   _priceInput, _dialogNotifications, overlays, selects, saved, entered,
                   outsideDialog>>

\* The notifications tab is what overlay o shows, and the user can reach it.
ShowsPanel(o) == InDocument(o) /\ overlays[o].panel.present

\* The webhook section of overlay o is visible: its toggle is checked.
SectionVisible(o) == ShowsPanel(o) /\ overlays[o].panel.enabled

\* The OpenAlgo fields of overlay o are visible.
FieldsVisible(o) == SectionVisible(o) /\ overlays[o].panel.mode = "openalgo"

\* The user flips the webhook toggle of overlay o: its change listener
\* stores the checkbox's state (lines 690-693).
toggleWebhook(o) ==
    /\ ShowsPanel(o)
    /\ overlays' = [overlays EXCEPT ![o].panel.enabled = ~@]
    /\ _dialogNotifications' =
          [_dialogNotifications EXCEPT !.webhookEnabled = ~overlays[o].panel.enabled]
    /\ entered' = [entered EXCEPT
                     !.enabled = IF overlays[o].panel.enabled THEN "false" ELSE "true"]
    /\ press' = <<"webhook", o>>
    /\ UNCHANGED <<_overlay, _onSave, _currentData, _activeTab, _conditionSelect,
                   _priceInput, selects, inputs, saved, outsideDialog>>

\* The user checks a mode radio of overlay o that is not checked: its
\* change listener stores the mode (lines 790-800).
chooseMode(o, mode) ==
    /\ SectionVisible(o)
    /\ overlays[o].panel.mode # mode
    /\ overlays' = [overlays EXCEPT ![o].panel.mode = mode]
    /\ _dialogNotifications' = [_dialogNotifications EXCEPT !.webhookMode = mode]
    /\ entered' = [entered EXCEPT !.mode = mode]
    /\ press' = <<"mode", o>>
    /\ UNCHANGED <<_overlay, _onSave, _currentData, _activeTab, _conditionSelect,
                   _priceInput, selects, inputs, saved, outsideDialog>>

\* The user picks an option of the action select of overlay o; the select
\* has no listener.
chooseAction(o, k) ==
    /\ FieldsVisible(o)
    /\ k \in 1..Len(ActionOptions)
    /\ overlays' = [overlays EXCEPT ![o].panel.action = ActionOptions[k]]
    /\ entered' = [entered EXCEPT !.action = ActionOptions[k]]
    /\ press' = <<"action", o>>
    /\ UNCHANGED <<_overlay, _onSave, _currentData, _activeTab, _conditionSelect,
                   _priceInput, _dialogNotifications, selects, inputs, saved,
                   outsideDialog>>

\* The user types a quantity into the quantity input of overlay o; the
\* input has no listener.
typeQuantity(o, text) ==
    /\ FieldsVisible(o)
    /\ overlays' = [overlays EXCEPT ![o].panel.quantity = text]
    /\ entered' = [entered EXCEPT !.quantity = text]
    /\ press' = <<"quantity", o>>
    /\ UNCHANGED <<_overlay, _onSave, _currentData, _activeTab, _conditionSelect,
                   _priceInput, _dialogNotifications, selects, inputs, saved,
                   outsideDialog>>

\* The alerts the dialog is shown for.
ToolTypes == {"line", "shape", "vertical", "undefined"}
Identities == {[alertId |-> "a1", symbol |-> "NIFTY", exchange |-> "NSE", price |-> 12346],
               [alertId |-> "a2", symbol |-> "RELIANCE", exchange |-> "undefined",
                price |-> 20000]}
EditData(i, condition, isTrendline, toolType) ==
    [alertId |-> i.alertId, symbol |-> i.symbol, exchange |-> i.exchange,
     price |-> i.price, condition |-> condition, isTrendline |-> isTrendline,
     toolType |-> toolType]

\* What the user types into a price input: 15.00.
TypedTexts == {1500}

\* One dialog shown several times over, for two alerts, each as a
\* trendline alert or not; the user edits the price and leaves the dialog
\* by one of its buttons.
DialogNext ==
    \/ \E i \in Identities, t \in BOOLEAN :
          /\ showDialog(EditData(i, "crossing", t, IF t THEN "line" ELSE "undefined"),
                        NotGiven)
          /\ Len(overlays') <= MaxShows
    \/ hideDialog
    \/ \E o \in 1..MaxShows :
          \/ pressSave(o)
          \/ pressCancel(o)
          \/ pressClose(o)
          \/ clickOverlay(o)
          \/ \E text \in TypedTexts : typePrice(o, text)

SpecDialog == Init /\ [][DialogNext]_vars

\* The dialog shown for every toolType with every condition; the user
\* changes the condition and the tab (the message tab renders like the
\* notifications tab for the fields of the model) and saves.
OptionsNext ==
    \/ \E tt \in ToolTypes, k \in 1..Len(AlertConditions) :
          /\ showDialog(EditData(CHOOSE i \in Identities : i.alertId = "a1",
                                  AlertConditions[k], FALSE, tt), NotGiven)
          /\ Len(overlays') <= MaxOptionShows
    \/ \E o \in 1..MaxOptionShows :
          \/ pressSave(o)
          \/ \E tab \in {"settings", "notifications"} :
                selectTab(o, tab) /\ Len(selects') <= MaxOptionShows + 1
          \/ \E k \in 1..Len(AlertConditions) : chooseCondition(o, k)

SpecOptions == Init /\ [][OptionsNext]_vars

\* The notification settings show() is given: none, or a SELL order of 5.
GivenSettings ==
    {NotGiven,
     [webhookEnabled |-> TRUE, webhookMode |-> "openalgo", openalgoAction |-> "SELL",
      openalgoQuantity |-> 5]}

\* What the user types into the quantity input: 7.
TypedQuantities == {7}

\* The dialog shown for one alert with or without notification settings;
\* the user edits the fields of the notifications tab, switches between
\* the tabs and saves.
SettingsNext ==
    \/ \E n \in GivenSettings :
          /\ showDialog(EditData(CHOOSE i \in Identities : i.alertId = "a1",
                                  "crossing", FALSE, "undefined"), n)
          /\ Len(overlays') <= MaxSettingsShows
    \/ \E o \in 1..MaxSettingsShows :
          \/ pressSave(o)
          \/ \E tab \in {"settings", "notifications"} :
                selectTab(o, tab) /\ Len(selects') <= MaxSettingsShows + 1
          \/ toggleWebhook(o)
          \/ \E mode \in {"openalgo", "custom"} : chooseMode(o, mode)
          \/ \E k \in 1..Len(ActionOptions) : chooseAction(o, k)
          \/ \E text \in TypedQuantities : typeQuantity(o, text)

SpecSettings == Init /\ [][SettingsNext]_vars

(***************************************************************************)
(* OptionChainModal (src/unnamed/part_003).  A step is an event (a change  *)
(* of the isOpen prop, a handler, a response) with the render and the      *)
(* effects that follow it.                                                 *)
(***************************************************************************)
\* The requests the two effects make after a render in which the modal is
\* open (lines 153-157), given what changed: fetchExpiries() when isOpen or
\* underlying changed, then fetchChain() when isOpen, underlying or
\* selectedExpiry changed and an expiry is selected.
EffectFetches(open, symbol, expiry) ==
    LET expiriesDeps == open # isOpen \/ symbol # underlying
        chainDeps == expiriesDeps \/ expiry # selectedExpiry
    IN  (IF open /\ expiriesDeps
         THEN <<[kind |-> "expiries", underlying |-> symbol, expiry |-> 0,
                 state |-> "pending"]>>
         ELSE <<>>)
        \o
        (IF open /\ chainDeps /\ expiry # 0
         THEN <<[kind |-> "chain", underlying |-> symbol, expiry |-> expiry,
                 state |-> "pending"]>>
         ELSE <<>>)

\* The render after an event that set isOpen, underlying and selectedExpiry
\* to the values given and fetches to made, and its effects; fetchChain()
\* sets isLoading when it starts.
RenderAndEffects(open, symbol, expiry, loading, made) ==
    LET new == EffectFetches(open, symbol, expiry)
    IN  /\ isOpen' = open
        /\ underlying' = symbol
        /\ selectedExpiry' = expiry
        /\ fetches' = made \o new
        /\ isLoading' = IF \E k \in 1..Len(new) : new[k].kind = "chain" THEN TRUE
                        ELSE loading

\* The parent opens the modal.
openModal ==
    /\ ~isOpen
    /\ RenderAndEffects(TRUE, underlying, selectedExpiry, isLoading, fetches)
    /\ modalStep' = <<"open", 0>>
    /\ UNCHANGED <<availableExpiries, optionChain, outsideModal>>

\* The parent closes the modal: the component renders nothing and keeps
\* its state.
closeModal ==
    /\ isOpen
    /\ RenderAndEffects(FALSE, underlying, selectedExpiry, isLoading, fetches)
    /\ modalStep' = <<"close", 0>>
    /\ UNCHANGED <<availableExpiries, optionChain, outsideModal>>

\* The user picks another underlying in the select (lines 302-313).
changeUnderlying(symbol) ==
    /\ isOpen
    /\ symbol # underlying
    /\ RenderAndEffects(isOpen, symbol, 0, isLoading, fetches)
    /\ optionChain' = 0
    /\ modalStep' = <<"underlying", 0>>
    /\ UNCHANGED <<availableExpiries, outsideModal>>

\* The user clicks the button of an expiry of the list (lines 344-352).
clickExpiry(expiry) ==
    /\ isOpen
    /\ \E k \in 1..Len(availableExpiries) : availableExpiries[k] = expiry
    /\ RenderAndEffects(isOpen, underlying, expiry, isLoading, fetches)
    /\ modalStep' = <<"expiry", expiry>>
    /\ UNCHANGED <<availableExpiries, optionChain, outsideModal>>

\* The user clicks the refresh button: fetchChain() (line 318).
refreshChain ==
    /\ isOpen
    /\ ~isLoading
    /\ selectedExpiry # 0
    /\ fetches' = Append(fetches, [kind |-> "chain", underlying |-> underlying,
                                   expiry |-> selectedExpiry, state |-> "pending"])
    /\ isLoading' = TRUE
    /\ modalStep' = <<"refresh", 0>>
    /\ UNCHANGED <<isOpen, underlying, selectedExpiry, availableExpiries, optionChain,
                   outsideModal>>

\* The response to request f of fetchExpiries() (lines 121-131): the list
\* for the underlying the request was made for, empty when the search
\* failed; with a list that is not empty its first expiry is selected.
expiriesArrive(f, outcome) ==
    /\ f \in 1..Len(fetches)
    /\ fetches[f].kind = "expiries"
    /\ fetches[f].state = "pending"
    /\ LET list == IF outcome = "ok" THEN ExpiriesOf(fetches[f].underlying) ELSE <<>>
           settled == [fetches EXCEPT ![f].state = outcome]
       IN  /\ availableExpiries' = list
           /\ RenderAndEffects(isOpen, underlying,
                               IF list # <<>> THEN list[1] ELSE selectedExpiry,
                               isLoading, settled)
    /\ modalStep' = <<"expiries", f>>
    /\ UNCHANGED <<optionChain, outsideModal>>

\* The response to request f of fetchChain() (lines 141-148): the chain,
\* empty when the request failed, becomes the chain shown.
chainArrives(f, outcome) ==
    /\ f \in 1..Len(fetches)
    /\ fetches[f].kind = "chain"
    /\ fetches[f].state = "pending"
    /\ optionChain' = f
    /\ fetches' = [fetches EXCEPT ![f].state = outcome]
    /\ isLoading' = FALSE
    /\ modalStep' = <<"chain", f>>
    /\ UNCHANGED <<isOpen, underlying, selectedExpiry, availableExpiries, outsideModal>>

FetchOutcomes == {"ok", "failed"}

ModalNext ==
    \/ openModal /\ Len(fetches') <= MaxFetches
    \/ closeModal
    \/ \E k \in 1..Len(UNDERLYINGS) :
          changeUnderlying(UNDERLYINGS[k]) /\ Len(fetches') <= MaxFetches
    \/ \E e \in 1..3 : clickExpiry(e) /\ Len(fetches') <= MaxFetches
    \/ refreshChain /\ Len(fetches') <= MaxFetches
    \/ \E f \in 1..MaxFetches, outcome \in FetchOutcomes :
          expiriesArrive(f, outcome) /\ Len(fetches') <= MaxFetches
    \/ \E f \in 1..MaxFetches, outcome \in FetchOutcomes : chainArrives(f, outcome)

SpecModal == Init /\ [][ModalNext]_vars

(***************************************************************************)
(* Time service (timeService.js, src/unnamed/part_001 lines 290-449).      *)
(* An async function runs to its first await in the step of its call and   *)
(* resumes in a later step, when the promise it awaits has settled.        *)
(***************************************************************************)
\* syncTimeWithAPI() without its test of isSyncing (line 325).
SyncBeginsUnguarded ==
    /\ isSyncing' = TRUE
    /\ syncCalls' = Append(syncCalls, "fetch")
    /\ UNCHANGED syncResult

\* syncTimeWithAPI() up to its first await: with a sync in progress it
\* returns isSynced at once; otherwise it sets isSyncing and issues the
\* request.
SyncBegins ==
    IF isSyncing
    THEN /\ syncResult' = IF isSynced THEN "true" ELSE "false"
         /\ UNCHANGED <<isSyncing, syncCalls>>
    ELSE /\ isSyncing' = TRUE
         /\ syncCalls' = Append(syncCalls, "fetch")
         /\ UNCHANGED syncResult

\* The sync call a caller of syncTimeWithAPI() awaits: the new one, or 0
\* for a promise that is already resolved.
SyncAwaited == IF isSyncing THEN 0 ELSE Len(syncCalls) + 1

\* initTimeService(), up to its await.
initTimeService ==
    /\ IF syncIntervalId # 0
       THEN /\ initCalls' = Append(initCalls, [pc |-> "done", on |-> 0])
            /\ UNCHANGED <<isSyncing, syncCalls, syncResult>>
       ELSE /\ initCalls' = Append(initCalls, [pc |-> "await", on |-> SyncAwaited])
            /\ SyncBegins
    /\ timeCall' = <<"init", Len(initCalls) + 1>>
    /\ afterDestroy' = FALSE
    /\ UNCHANGED <<timeOffset, lastSyncTime, isSynced, syncIntervalId, intervals,
                   outsideTime>>

\* The promise initTimeService call j awaits has settled.
Resumable(j) ==
    /\ initCalls[j].pc = "await"
    /\ IF initCalls[j].on = 0 THEN TRUE ELSE syncCalls[initCalls[j].on] # "fetch"

\* A continuation is queued as a microtask: it runs before the next
\* response or timer callback.
MicrotaskQueued == \E j \in 1..Len(initCalls) : Resumable(j)

\* initTimeService() call j resumes after its await: setInterval.
initResumes(j) ==
    /\ j \in 1..Len(initCalls)
    /\ Resumable(j)
    /\ intervals' = Append(intervals, TRUE)
    /\ syncIntervalId' = Len(intervals) + 1
    /\ initCalls' = [initCalls EXCEPT ![j].pc = "done"]
    /\ timeCall' = <<"initResumes", j>>
    /\ UNCHANGED <<afterDestroy, timeOffset, lastSyncTime, isSyncing, isSynced, syncCalls,
                   syncResult, outsideTime>>

\* The request of sync call k settles: a response with a finite nstt
\* ("ok"), any other response ("failed"), or a rejected fetch ("throws").
syncSettles(k, outcome) ==
    /\ k \in 1..Len(syncCalls)
    /\ syncCalls[k] = "fetch"
    /\ ~MicrotaskQueued
    /\ IF outcome = "ok"
       THEN /\ timeOffset' = k
            /\ lastSyncTime' = k
            /\ isSynced' = TRUE
       ELSE UNCHANGED <<timeOffset, lastSyncTime, isSynced>>
    /\ isSyncing' = FALSE
    /\ syncCalls' = [syncCalls EXCEPT ![k] = outcome]
    /\ syncResult' = IF outcome = "ok" THEN "true" ELSE "false"
    /\ timeCall' = <<"syncSettles", k>>
    /\ UNCHANGED <<afterDestroy, syncIntervalId, intervals, initCalls, outsideTime>>

\* The callback of interval i runs: syncTimeWithAPI(), not awaited.
intervalTick(i) ==
    /\ i \in 1..Len(intervals)
    /\ intervals[i]
    /\ ~MicrotaskQueued
    /\ SyncBegins
    /\ timeCall' = <<"tick", i>>
    /\ UNCHANGED <<afterDestroy, timeOffset, lastSyncTime, isSynced, syncIntervalId, intervals,
                   initCalls, outsideTime>>

\* syncTimeWithAPI(), called by the application.
syncTimeWithAPI ==
    /\ SyncBegins
    /\ timeCall' = <<"sync", IF isSyncing THEN 0 ELSE Len(syncCalls) + 1>>
    /\ UNCHANGED <<afterDestroy, timeOffset, lastSyncTime, isSynced, syncIntervalId,
                   intervals, initCalls, outsideTime>>

\* destroyTimeService().
destroyTimeService ==
    /\ IF syncIntervalId # 0
       THEN /\ intervals' = [intervals EXCEPT ![syncIntervalId] = FALSE]
            /\ syncIntervalId' = 0
       ELSE UNCHANGED <<intervals, syncIntervalId>>
    /\ timeCall' = <<"destroy", 0>>
    /\ afterDestroy' = TRUE
    /\ UNCHANGED <<timeOffset, lastSyncTime, isSyncing, isSynced, initCalls, syncCalls,
                   syncResult, outsideTime>>

SyncOutcomes == {"ok", "failed", "throws"}

TimeNext ==
    \/ initTimeService /\ Len(initCalls') <= MaxInits /\ Len(syncCalls') <= MaxSyncs
    \/ \E j \in 1..MaxInits : initResumes(j)
    \/ \E k \in 1..MaxSyncs, outcome \in SyncOutcomes : syncSettles(k, outcome)
    \/ \E i \in 1..MaxInits : intervalTick(i) /\ Len(syncCalls') <= MaxSyncs
    \/ syncTimeWithAPI /\ Len(syncCalls') <= MaxSyncs
    \/ destroyTimeService

SpecTime == Init /\ [][TimeNext]_vars

(***************************************************************************)
(* useLocalStorage (useLocalStorage.js): one hook at a time on one key.    *)
(* A render and the effects it commits are one step.                       *)
(***************************************************************************)
\* clearTimeout(timeoutRef.current), guarded by its truthiness.
ClearPending(ts) ==
    IF timeoutRef # 0 /\ ts[timeoutRef].state = "pending"
    THEN [ts EXCEPT ![timeoutRef].state = "cleared"]
    ELSE ts

\* An effect that sets its timer without clearing the pending one.
ScheduleWriteNoClear(v) ==
    /\ writeTimers' = Append(writeTimers, [state |-> "pending", value |-> v])
    /\ timeoutRef' = Len(writeTimers) + 1

\* The effect after a change of the value (lines 60-76), preceded by the
\* cleanup of the previous effect (lines 79-83): the pending timer is
\* cleared and a new one is set.
ScheduleWrite(v) ==
    /\ writeTimers' = Append(ClearPending(writeTimers), [state |-> "pending", value |-> v])
    /\ timeoutRef' = Len(writeTimers) + 1

\* The component mounts with fresh refs: the state is read from
\* localStorage and the first effect only clears isInitialMount.
mountHook(default, option) ==
    /\ ~hook.mounted
    /\ LET serialize == SerializeOption(option, default)
       IN  /\ hook' = [mounted |-> TRUE, default |-> default, serialize |-> serialize]
           /\ value' = ReadStored(item, default, serialize)
    /\ isInitialMount' = FALSE
    /\ timeoutRef' = 0
    /\ lsCall' = "mount"
    /\ UNCHANGED <<item, writeTimers, writes, outsideHook>>

\* setStoredValue(v) with a value that differs from the state: the
\* component renders again and the effect runs.
setStoredValue(v) ==
    /\ hook.mounted
    /\ v # value
    /\ value' = v
    /\ ScheduleWrite(v)
    /\ lsCall' = "set"
    /\ UNCHANGED <<item, hook, isInitialMount, writes, outsideHook>>

\* The write timer t fires, debounceMs after it was set.
writeFires(t) ==
    /\ t \in 1..Len(writeTimers)
    /\ writeTimers[t].state = "pending"
    /\ LET text == TextToStore(writeTimers[t].value, hook.serialize)
       IN  /\ item' = [present |-> TRUE, text |-> text]
           /\ writes' = Append(writes, [value |-> writeTimers[t].value, text |-> text,
                                        default |-> hook.default,
                                        serialize |-> hook.serialize])
    /\ writeTimers' = [writeTimers EXCEPT ![t].state = "fired"]
    /\ lsCall' = "write"
    /\ UNCHANGED <<hook, value, isInitialMount, timeoutRef, outsideHook>>

\* The component unmounts: the cleanup of the last effect runs, if an
\* effect has set one.
unmountHook ==
    /\ hook.mounted
    /\ hook' = [hook EXCEPT !.mounted = FALSE]
    /\ writeTimers' = ClearPending(writeTimers)
    /\ lsCall' = "unmount"
    /\ UNCHANGED <<item, value, isInitialMount, timeoutRef, writes, outsideHook>>

\* The default values and serialize options the hook is mounted with;
\* useLocalStorageBoolean is the default false with serialize false.
HookDefaults == {JsFalse, JsNumber, JsValue("string", "hello"), JsObject, JsNull}
SerializeOptions == {"undefined", "true", "false"}

\* The hook with a boolean and with an object default, its value changed
\* several times.
HookNext ==
    \/ \E d \in {JsFalse, JsObject} : mountHook(d, "undefined")
    \/ \E v \in {JsTrue, JsFalse, JsObject} :
          setStoredValue(v) /\ Len(writeTimers') <= MaxSets
    \/ \E t \in 1..MaxSets : writeFires(t)
    \/ unmountHook

\* A pending timer fires when its delay has passed.
HookFairness == \A t \in 1..MaxSets : WF_vars(writeFires(t))

SpecHook == Init /\ [][HookNext]_vars /\ HookFairness

\* The hook with every default and option, every value written and read
\* back.
RoundTripNext ==
    \/ \E d \in HookDefaults, o \in SerializeOptions : mountHook(d, o)
    \/ \E v \in JsValues : setStoredValue(v) /\ Len(writeTimers') <= MaxRoundTrips
    \/ \E t \in 1..MaxRoundTrips : writeFires(t)
    \/ unmountHook

SpecRoundTrip == Init /\ [][RoundTripNext]_vars

(***************************************************************************)
(* Claims about UserAlertsState.                                           *)
(***************************************************************************)
AddCalls == {"addAlert", "addAlertWithCondition"}

MutatingCalls ==
    AddCalls \cup {"removeAlert", "updateAlertPrice", "updateAlert", "importAlerts",
                   "clearAlerts"}

\* The events of the most recent call with the given name.
EventsNamed(name) == SelectSeq(events, LAMBDA e : e[1] = name)

\* C5: alert ids are unique: the alert under key k has id k, no two entries
\* share a key, and the id an add call returns was held by no alert of the
\* store when the call was made.
C5_UniqueIds ==
    /\ [](\A i \in 1..Len(_alerts) :
              /\ _alerts[i][2].id = _alerts[i][1]
              /\ \A j \in 1..Len(_alerts) : _alerts[j][1] = _alerts[i][1] => j = i)
    /\ [][op'[1] \in AddCalls
          => /\ ~MapHas(_alerts, op'[2])
             /\ MapHas(_alerts', op'[2])]_vars

\* C5 witness: an add call returned an id while the store held an imported alert.
C5_Witness ==
    /\ op[1] \in AddCalls
    /\ Len(_alerts) = 2
    /\ \E i \in 1..2 : _alerts[i][2].type = "price" /\ _alerts[i][1] # op[2]

\* alerts() yields exactly the alerts the store holds, by price descending.
AlertsMatchStore ==
    /\ Len(_alertsArray) = Len(_alerts)
    /\ \A i \in 1..Len(_alertsArray) :
           /\ _alertsArray[i].live
           /\ MapHas(_alerts, _alertsArray[i].alert.id)
           /\ MapGet(_alerts, _alertsArray[i].alert.id) = _alertsArray[i].alert
    /\ \A i \in 1..Len(_alerts) :
           \E j \in 1..Len(_alertsArray) : _alertsArray[j].alert = _alerts[i][2]
    /\ \A i, j \in 1..Len(_alertsArray) :
           i < j => _alertsArray[i].alert.price >= _alertsArray[j].alert.price

C8_IndividualEventsAll ==
    [][op'[1] \in MutatingCalls
       => /\ \A id \in MapKeys(_alerts') \ MapKeys(_alerts) :
                 \E k \in 1..Len(events') : events'[k] = <<"alertAdded", id>>
          /\ \A id \in MapKeys(_alerts) \ MapKeys(_alerts') :
                 \E k \in 1..Len(events') : events'[k] = <<"alertRemoved", id>>
          /\ \A id \in MapKeys(_alerts) \cap MapKeys(_alerts') :
                 MapGet(_alerts, id) # MapGet(_alerts', id)
                 => \E k \in 1..Len(events') : events'[k] = <<"alertChanged", id>>]_vars

\* C8 as amended: addAlert and addAlertWithCondition fire alertAdded for the
\* alert added, removeAlert fires alertRemoved for the alert removed,
\* updateAlertPrice and updateAlert fire alertChanged for the alert changed,
\* each before the one alertsChanged; importAlerts and clearAlerts fire no
\* individual event, only alertsChanged.
C8_IndividualEvents ==
    [][/\ op'[1] \in AddCalls
          => events' = <<<<"alertAdded", op'[2]>>, <<"alertsChanged", Undefined>>>>
       /\ (op'[1] = "removeAlert" /\ MapHas(_alerts, op'[2]))
          => events' = <<<<"alertRemoved", op'[2]>>, <<"alertsChanged", Undefined>>>>
       /\ (op'[1] \in {"updateAlertPrice", "updateAlert"} /\ MapHas(_alerts, op'[2]))
          => events' = <<<<"alertChanged", op'[2]>>, <<"alertsChanged", Undefined>>>>
       /\ op'[1] \in {"importAlerts", "clearAlerts"}
          => \A k \in 1..Len(events') : events'[k][1] = "alertsChanged"]_vars

\* C8 witness: removeAlert() removed an alert of the store.
C8_Witness ==
    /\ op[1] = "removeAlert"
    /\ ~MapHas(_alerts, op[2])
    /\ Len(EventsNamed("alertRemoved")) = 1

\* The fields the round trip is to preserve.
Preserved(alert) ==
    <<alert.id, alert.price, alert.condition, alert.notifications, alert.symbol,
      alert.exchange>>

\* C9: importing what exportAlerts() returned into an empty store gives
\* exactly the alerts that are not tool alerts, each under its id with id,
\* price, condition, notifications, symbol and exchange as in the original.
C9_RoundTrip ==
    op[1] = "exportAlerts"
    => LET empty == [alerts |-> <<>>, array |-> <<>>, events |-> <<>>, seen |-> <<>>]
           restored == ImportAlertsOp(empty, ArrayOf(exported)).alerts
           originals == SelectSeq(MapValues(_alerts), LAMBDA a : a.type # "tool")
       IN  /\ Len(restored) = Len(originals)
           /\ \A i \in 1..Len(originals) :
                  /\ restored[i][1] = originals[i].id
                  /\ Preserved(restored[i][2]) = Preserved(originals[i])
           /\ \A i \in 1..Len(_alerts) :
                  _alerts[i][2].type = "tool" => ~MapHas(restored, _alerts[i][1])

\* C9 witness: an export of a store holding a tool alert and an alert with
\* notification settings, symbol and exchange.
C9_Witness ==
    /\ op[1] = "exportAlerts"
    /\ Len(exported) = 1
    /\ exported[1].notifications # Undefined
    /\ exported[1].symbol # Undefined
    /\ \E i \in 1..Len(_alerts) : _alerts[i][2].type = "tool"

\* A record with an id and a numeric price that is not flagged as triggered.
WellFormed(alertData) ==
    /\ alertData.id \in Ids
    /\ alertData.price \in Prices
    /\ alertData.triggered # "true"

Displayed(i) == toasts[i].inContainer /\ _container = "mounted"

PendingTimers(kind) ==
    {t \in 1..Len(timers) : timers[t].kind = kind /\ timers[t].state = "pending"}

\* C1: replace-not-stack. For every alertId, once no removal of an earlier
\* toast of that alertId is pending, at most one toast of the alertId is
\* displayed, and a displayed toast is the one _notifications holds under the
\* alertId.
C1_ReplaceNotStack ==
    \A a \in AlertIds :
        (\A t \in PendingTimers("removal") : timers[t].alertId # a)
        => LET shown == {i \in 1..Len(toasts) : toasts[i].alertId = a /\ Displayed(i)}
           IN  /\ Cardinality(shown) <= 1
               /\ \A i \in shown :
                      MapHas(_notifications, a) /\ MapGet(_notifications, a) = i

\* C2: every toast show() put into the container is removed, once: while it
\* is in the container either its auto-dismiss timer or a removal timer for
\* it is pending, and no toast is removed twice.
C2_EveryToastReleased ==
    \A i \in 1..Len(toasts) :
        /\ toasts[i].removals <= 1
        /\ toasts[i].inContainer
           => \E t \in PendingTimers("auto") \cup PendingTimers("removal") :
                  timers[t].toast = i

\* C3: after destroy() no timer of the dispatcher is pending, both maps are
\* empty and no toast or result toast is attached to the document.
C3_DestroyLeavesNothing ==
    _container = "null"
    => /\ \A t \in 1..Len(timers) : timers[t].state # "pending"
       /\ _notifications = <<>>
       /\ _dismissTimeouts = <<>>
       /\ \A i \in 1..Len(toasts) : ~Displayed(i)
       /\ \A r \in 1..Len(resultToasts) : ~resultToasts[r].inBody

\* C4: a toast dismissed before its auto-dismiss (its 60 s timer was cleared)
\* has no pending auto-dismiss timer, is removed from the container exactly
\* once when no removal of it is pending any more, and never twice.
C4_DismissCancelsTimer ==
    /\ \A i \in 1..Len(toasts) :
           toasts[i].dismissing => \A t \in PendingTimers("auto") : timers[t].toast # i
    /\ \A t \in 1..Len(timers) :
           (timers[t].kind = "auto" /\ timers[t].state = "cleared")
           => LET i == timers[t].toast
              IN  /\ toasts[i].removals <= 1
                  /\ (\A u \in PendingTimers("removal") : timers[u].toast # i)
                     => toasts[i].removals = 1

(***************************************************************************)
(* Claims on import, export and id generation                              *)
(***************************************************************************)
\* The record is one importAlerts() is told was triggered.
Triggered(alertData) == alertData.triggered = "true"

\* C11: importAlerts never adds a record whose triggered field is true. For
\* every triggered record of the batch whose id no other, importable record
\* of the batch carries: an id the store did not hold is still not held after
\* the import, and an alert held under that id is the same alert unchanged.
\* Where an importable record of the batch shares the id, the alert held
\* after the import is not the one the triggered record describes.
C11_TriggeredNotImported ==
    [][op'[1] = "importAlerts" =>
          \A i \in 1..Len(batch') :
              Triggered(batch'[i]) =>
                  LET id == batch'[i].id
                  IN  IF \E j \in 1..Len(batch') :
                            batch'[j].id = id /\ WellFormed(batch'[j])
                      THEN /\ MapHas(_alerts', id)
                           /\ \E j \in 1..Len(batch') :
                                 /\ batch'[j].id = id /\ WellFormed(batch'[j])
                                 /\ MapGet(_alerts', id) = ImportedAlert(batch'[j])
                      ELSE /\ MapHas(_alerts', id) <=> MapHas(_alerts, id)
                           /\ MapHas(_alerts, id)
                                 => MapGet(_alerts', id) = MapGet(_alerts, id)]_vars

\* An import whose batch held a triggered record for an id under which the
\* store still holds the alert addAlert() created.
C11_Witness ==
    /\ op[1] = "importAlerts"
    /\ \E i \in 1..Len(batch) :
          /\ Triggered(batch[i])
          /\ MapHas(_alerts, batch[i].id)
          /\ MapGet(_alerts, batch[i].id).type = Undefined
          /\ MapGet(_alerts, batch[i].id).price # batch[i].price

\* The records of a sequence that carry the id.
RecordsFor(records, id) == {i \in 1..Len(records) : records[i].id = id}

\* C12: exportAlerts returns exactly one record for each stored alert whose
\* type is not 'tool' and none for a tool alert; every record has type
\* 'price' and no toolRef field; the call leaves the map and the array of
\* alerts() as they were and fires no event.
C12_ExportPriceAlertsOnly ==
    [][op'[1] = "exportAlerts" =>
          /\ \A k \in 1..Len(_alerts) :
                Cardinality(RecordsFor(exported', _alerts[k][1]))
                    = IF _alerts[k][2].type # "tool" THEN 1 ELSE 0
          /\ \A i \in 1..Len(exported') :
                /\ MapHas(_alerts, exported'[i].id)
                /\ exported'[i].type = "price"
                /\ "toolRef" \notin DOMAIN exported'[i]
          /\ _alerts' = _alerts
          /\ _alertsArray' = _alertsArray
          /\ events' = <<>>]_vars

\* An export of a store that holds a tool alert and another alert.
C12_Witness ==
    /\ op[1] = "exportAlerts"
    /\ Len(_alerts) = 2
    /\ Len(exported) = 1
    /\ \E k \in 1..Len(_alerts) :
          _alerts[k][2].type = "tool" /\ _alerts[k][2].toolRef # Undefined

\* C13: addAlert/addAlertWithCondition always terminates: whatever the store
\* holds, a call that has entered id generation eventually returns, given
\* that every candidate id is drawn again and again.
C13_AddTerminates == (pc = "loop") ~> (pc = "idle")

\* The same for the stores in which some candidate id is not held.
AddTerminatesWhenIdFree ==
    (pc = "loop" /\ GetNewId(_alerts) # {}) ~> (pc = "idle")

(***************************************************************************)
(* Claims on the webhook channel                                           *)
(***************************************************************************)
\* The delivery settles in this step as a failure: resolved with success
\* false, or rejected.
FailsNow(i) ==
    /\ deliveries[i].state = "pending"
    /\ deliveries'[i].state \in {"failure", "rejected"}

\* The step adds exactly one result toast, and leaves the earlier ones alone.
OneResultToastAdded ==
    /\ Len(resultToasts') = Len(resultToasts) + 1
    /\ SubSeq(resultToasts', 1, Len(resultToasts)) = resultToasts

\* The step leaves every main toast, every timer it found and both maps alone.
MainToastsUntouched ==
    /\ toasts' = toasts
    /\ _notifications' = _notifications
    /\ _dismissTimeouts' = _dismissTimeouts
    /\ _container' = _container
    /\ SubSeq(timers', 1, Len(timers)) = timers

\* C14: a webhook delivery that fails (resolves with success false, or
\* rejects) produces exactly one failure-styled result toast carrying the
\* error message (the message of the result, or of the Error), and leaves
\* the alert's main toast, its auto-dismiss timer and both maps unchanged.
C14_WebhookFailureContained ==
    [][\A i \in 1..Len(deliveries) :
          FailsNow(i) =>
              /\ OneResultToastAdded
              /\ LET toast == resultToasts'[Len(resultToasts')]
                 IN  /\ toast.success = FALSE
                     /\ toast.inBody
                     /\ toast.message = IF deliveries'[i].state = "failure"
                                        THEN "HTTP 500" ELSE "Failed to fetch"
              /\ MainToastsUntouched]_vars

\* A rejected delivery for an alert whose main toast is shown with its
\* auto-dismiss timer pending, and the failure toast for it.
C14_Witness ==
    \E i \in 1..Len(deliveries) :
        /\ deliveries[i].state = "rejected"
        /\ MapHas(_notifications, deliveries[i].alertId)
        /\ Displayed(MapGet(_notifications, deliveries[i].alertId))
        /\ MapHas(_dismissTimeouts, deliveries[i].alertId)
        /\ timers[MapGet(_dismissTimeouts, deliveries[i].alertId)].state = "pending"
        /\ \E r \in 1..Len(resultToasts) :
              ~resultToasts[r].success /\ resultToasts[r].message = "Failed to fetch"

\* The step is a show() call whose settings have webhookEnabled true.
ShowWithWebhook == call'[1] = "show" /\ call'[3].webhookEnabled = "true"

\* The step starts exactly one delivery, for the alert shown.
OneDeliveryStarted ==
    /\ Len(deliveries') = Len(deliveries) + 1
    /\ SubSeq(deliveries', 1, Len(deliveries)) = deliveries
    /\ deliveries'[Len(deliveries')] = [alertId |-> call'[2], state |-> "pending"]

\* The step starts no delivery, and no delivery becomes pending again.
NoDeliveryStarted ==
    /\ Len(deliveries') = Len(deliveries)
    /\ \A i \in 1..Len(deliveries) :
          deliveries[i].state # "pending" => deliveries'[i] = deliveries[i]

\* C15, as stated: every show() call with webhookEnabled true invokes the
\* delivery function exactly once, and no other step invokes it (no retry
\* when a delivery reports failure or throws).
C15_SingleAttemptEveryShow ==
    [][IF ShowWithWebhook THEN OneDeliveryStarted ELSE NoDeliveryStarted]_vars

\* C15, amended: every show() call with webhookEnabled true on a dispatcher
\* that has not been destroyed invokes the delivery function exactly once;
\* show() on a destroyed dispatcher invokes nothing, and no other step
\* invokes the delivery function.
C15_SingleAttempt ==
    [][IF ShowWithWebhook /\ _container # "null"
       THEN OneDeliveryStarted ELSE NoDeliveryStarted]_vars

\* A delivery that failed, with no other delivery started since.
C15_Witness ==
    /\ Len(deliveries) = 1
    /\ deliveries[1].state \in {"failure", "rejected"}
    /\ call[1] # "settled"
    /\ \E r \in 1..Len(resultToasts) : ~resultToasts[r].success

\* The step is the completion of exactly delivery i; no other delivery changes.
CompletesOnly(i) ==
    /\ deliveries[i].state = "pending"
    /\ deliveries'[i].state \in WebhookOutcomes
    /\ \A j \in 1..Len(deliveries) : j # i => deliveries'[j] = deliveries[j]

\* C16: show() does not wait for the delivery. (1) A delivery that is
\* pending can complete, with any outcome, whatever the state of the other
\* deliveries. (2) A show() call made while deliveries are pending shows
\* and tracks the toast of its alert and leaves the pending deliveries
\* pending. (3) A completion is the completion of one delivery: it adds
\* one result toast, styled by that delivery's outcome, and changes no
\* other delivery, no earlier result toast and no main toast.
C16_DeliveriesIndependent ==
    /\ [](\A i \in 1..Len(deliveries) :
              (deliveries[i].state = "pending" /\ Len(timers) < MaxTimers)
              => \A o \in WebhookOutcomes : ENABLED webhookSettles(i, o))
    /\ [][call'[1] = "show" =>
              /\ ShowToastFlag(call'[3]) =>
                     /\ MapHas(_notifications', call'[2])
                     /\ toasts'[MapGet(_notifications', call'[2])].inContainer
                     /\ MapGet(_notifications', call'[2]) = Len(toasts) + 1
              /\ SubSeq(deliveries', 1, Len(deliveries)) = deliveries]_vars
    /\ [][call'[1] = "settled" =>
              /\ \E i \in 1..Len(deliveries) : CompletesOnly(i)
              /\ \A i \in 1..Len(deliveries) :
                    CompletesOnly(i) =>
                        resultToasts'[Len(resultToasts')].success
                            = (deliveries'[i].state = "success")
              /\ OneResultToastAdded
              /\ MainToastsUntouched]_vars

\* Two deliveries for different alerts: the one started second, while the
\* first was pending, has completed and has its result toast; the first is
\* still pending; the toast of the second alert is shown.
C16_Witness ==
    /\ Len(deliveries) = 2
    /\ deliveries[1].alertId # deliveries[2].alertId
    /\ deliveries[1].state = "pending"
    /\ deliveries[2].state = "success"
    /\ Len(resultToasts) = 1
    /\ resultToasts[1].success
    /\ MapHas(_notifications, deliveries[2].alertId)
    /\ Displayed(MapGet(_notifications, deliveries[2].alertId))

\* The deliveries that have completed.
Completed == {i \in 1..Len(deliveries) : deliveries[i].state # "pending"}

\* The removal timers of result toast r that have not run yet.
PendingResultRemovals(r) ==
    {t \in 1..Len(timers) : /\ timers[t].kind = "resultRemoval"
                            /\ timers[t].toast = r
                            /\ timers[t].state = "pending"}

\* C17: (1) every completed delivery has produced exactly one result toast,
\* which is no main toast (it is created by the completion, which leaves
\* the main toasts alone) and is success-styled iff the delivery reported
\* success; (2) a result toast is detached at most once, and it is detached
\* once its 60-second timer has run or was cancelled and the removal that
\* followed has run; (3) a manual close cancels the 60-second timer, and a
\* cancelled timer never runs.
C17_ResultToastLifecycle ==
    /\ [](/\ Len(resultToasts) = Cardinality(Completed)
          /\ \A r \in 1..Len(resultToasts) :
                /\ resultToasts[r].removals <= 1
                /\ resultToasts[r].inBody <=> resultToasts[r].removals = 0
                /\ timers[resultToasts[r].timer].kind = "resultAuto"
                /\ (/\ timers[resultToasts[r].timer].state # "pending"
                    /\ PendingResultRemovals(r) = {})
                   => resultToasts[r].removals = 1)
    /\ [][call'[1] = "settled" =>
              /\ OneResultToastAdded
              /\ toasts' = toasts
              /\ _notifications' = _notifications
              /\ \E i \in 1..Len(deliveries) :
                    /\ CompletesOnly(i)
                    /\ resultToasts'[Len(resultToasts')].success
                           = (deliveries'[i].state = "success")]_vars
    /\ [][/\ call'[1] = "closeResult" =>
                 \E r \in 1..Len(resultToasts) :
                     /\ resultToasts[r].inBody
                     /\ timers'[resultToasts[r].timer].state # "pending"
                     /\ PendingResultRemovals(r)' # {}
           /\ \A t \in 1..Len(timers) :
                 timers[t].state = "cleared" => timers'[t].state = "cleared"]_vars

\* A result toast the user closed before its 60-second timer ran: the timer
\* is cancelled and the toast was detached once. Another was left to its timer.
C17_Witness ==
    /\ \E r \in 1..Len(resultToasts) :
          /\ timers[resultToasts[r].timer].state = "cleared"
          /\ resultToasts[r].removals = 1
          /\ ~resultToasts[r].inBody
    /\ \E r \in 1..Len(resultToasts) :
          /\ timers[resultToasts[r].timer].state = "fired"
          /\ resultToasts[r].removals = 1

(***************************************************************************)
(* Claims on the channels of show() and on calls that find nothing to do   *)
(***************************************************************************)
\* The step appends one toast for the alert of the call to the container
\* and tracks it.
ToastShown ==
    /\ Len(toasts') = Len(toasts) + 1
    /\ toasts'[Len(toasts')].alertId = call'[2]
    /\ toasts'[Len(toasts')].inContainer
    /\ MapHas(_notifications', call'[2])
    /\ MapGet(_notifications', call'[2]) = Len(toasts')

\* _playAlarm() ran in the call, whatever became of it.
AlarmFired == call'[4] # "none"

\* The step starts one delivery for the alert of the call.
WebhookSent ==
    /\ Len(deliveries') = Len(deliveries) + 1
    /\ deliveries'[Len(deliveries')].alertId = call'[2]

\* Each channel fires in the step iff its flag of the call's settings says
\* so: showToast not false, playSound not false, webhookEnabled true. With
\* the page's audio in order the alarm that fires is heard.
ChannelsFollowSettings ==
    /\ IF call'[3].showToast # "false" THEN ToastShown ELSE Len(toasts') = Len(toasts)
    /\ AlarmFired <=> call'[3].playSound # "false"
    /\ IF call'[3].webhookEnabled = "true" THEN WebhookSent
       ELSE Len(deliveries') = Len(deliveries)
    /\ call'[4] \in {"none", "played", "silent", "failed"}

\* C18, as stated: for every show() call the toast is shown iff showToast
\* is not false, the alarm is played iff playSound is not false and the
\* webhook is sent iff webhookEnabled is true (no settings: toast and sound,
\* no webhook), also when playing the alarm fails.
C18_ChannelsIndependentEveryShow ==
    [][call'[1] = "show" => ChannelsFollowSettings]_vars

\* C18, amended: the same for every show() call on a dispatcher that has
\* not been destroyed; on a destroyed dispatcher no channel fires.
C18_ChannelsIndependent ==
    [][call'[1] = "show" =>
          IF _container # "null" THEN ChannelsFollowSettings
          ELSE /\ toasts' = toasts
               /\ deliveries' = deliveries
               /\ ~AlarmFired]_vars

\* A show() call with toast, sound and webhook on in which playing the
\* alarm failed: the toast is shown and the delivery is started.
C18_Witness ==
    /\ call[1] = "show"
    /\ call[3].showToast = "true" /\ call[3].webhookEnabled = "true"
    /\ call[4] = "failed"
    /\ MapHas(_notifications, call[2])
    /\ Displayed(MapGet(_notifications, call[2]))
    /\ Len(deliveries) = 1
    /\ deliveries[1] = [alertId |-> call[2], state |-> "pending"]

\* The step changes nothing of the dispatcher: no map, node, timer,
\* delivery or result toast.
DispatcherUnchanged ==
    UNCHANGED <<_container, _notifications, _dismissTimeouts, toasts, timers,
                deliveries, resultToasts>>

\* dismiss(alertId) for an alertId that neither map holds.
DismissOfMissingKey ==
    /\ call'[1] = "dismiss"
    /\ ~MapHas(_notifications, call'[2])
    /\ ~MapHas(_dismissTimeouts, call'[2])

\* dismiss() of a missing key and show() after destroy() change nothing.
DismissAndShowIdempotent ==
    [][(DismissOfMissingKey \/ (call'[1] = "show" /\ _container = "null"))
       => DispatcherUnchanged]_vars

\* C19: dismiss(alertId) for an alertId with no live toast and no pending
\* timer, show() after destroy(), and a repeated destroy() change no
\* dispatcher state and create no timer or node.
C19_IdempotentOnMissingKey ==
    [][(\/ DismissOfMissingKey
        \/ call'[1] = "show" /\ _container = "null"
        \/ call'[1] = "destroy" /\ _container = "null")
       => DispatcherUnchanged]_vars

(***************************************************************************)
(* Claims on the trigger evaluator                                         *)
(***************************************************************************)
\* The step is the first evaluation of the alert.
FirstEvaluation ==
    /\ evalAlert.lastPosition = "undefined"
    /\ Len(ticks') = Len(ticks) + 1

\* C20: for every scalar alert (crossing, crossing_up, crossing_down)
\* created while the price is already past the threshold on the triggering
\* side, the first evaluation records the position (above or below, as the
\* observed price is) and emits no trigger.
C20_NoTriggerOnCreation ==
    [][FirstEvaluation =>
          LET price == ticks'[Len(ticks')].price
              above == price > evalAlert.price
          IN  (\/ evalAlert.condition = "crossing"
               \/ evalAlert.condition = "crossing_up" /\ above
               \/ evalAlert.condition = "crossing_down" /\ ~above)
              => /\ ~ticks'[Len(ticks')].trigger
                 /\ evalAlert'.initialPricePosition = IF above THEN "above" ELSE "below"
                 /\ evalAlert'.lastPosition = evalAlert'.initialPricePosition]_vars

\* A crossing_up alert first evaluated with the price above its threshold:
\* the position is recorded and no trigger was emitted.
C20_Witness ==
    /\ evalAlert.condition = "crossing_up"
    /\ Len(ticks) = 1
    /\ ticks[1].price > evalAlert.price
    /\ ~ticks[1].trigger
    /\ evalAlert.initialPricePosition = "above"

\* The position observed on tick i.
TickPosition(i) == IF ticks[i].price > evalAlert.price THEN "above" ELSE "below"

\* C21: a trigger is emitted on a tick iff the position changed between
\* the previous observation and this one in the direction of the condition:
\* below to above for crossing_up (never above to below), above to below
\* for crossing_down (never below to above), either way for crossing.
C21_TriggerIffMatchingTransition ==
    \A i \in 1..Len(ticks) :
        ticks[i].trigger <=>
            /\ i > 1
            /\ \/ /\ evalAlert.condition = "crossing_up"
                  /\ TickPosition(i - 1) = "below" /\ TickPosition(i) = "above"
               \/ /\ evalAlert.condition = "crossing_down"
                  /\ TickPosition(i - 1) = "above" /\ TickPosition(i) = "below"
               \/ /\ evalAlert.condition = "crossing"
                  /\ TickPosition(i - 1) # TickPosition(i)

\* A crossing_up alert observed below, above, below: it triggered on the
\* upward transition and not on the downward one.
C21_Witness ==
    /\ evalAlert.condition = "crossing_up"
    /\ Len(ticks) = 3
    /\ TickPosition(1) = "below" /\ TickPosition(2) = "above" /\ TickPosition(3) = "below"
    /\ ticks[2].trigger
    /\ ~ticks[3].trigger

\* The alert has triggered on some tick.
HasTriggered == \E i \in 1..Len(ticks) : ticks[i].trigger

\* The step evaluates one more observation.
Evaluation == Len(ticks') = Len(ticks) + 1

\* The observation evaluated in this step crosses the threshold in the
\* direction of the condition, seen from the previous observation.
CrossesAgain ==
    /\ Evaluation
    /\ Len(ticks) >= 1
    /\ LET from == TickPosition(Len(ticks))
           to == IF ticks'[Len(ticks')].price > evalAlert.price THEN "above" ELSE "below"
       IN  \/ evalAlert.condition = "crossing" /\ from # to
           \/ evalAlert.condition = "crossing_up" /\ from = "below" /\ to = "above"
           \/ evalAlert.condition = "crossing_down" /\ from = "above" /\ to = "below"

\* C22: the alert is re-armable.  Once it has triggered its
\* initialPricePosition is "unknown" and stays "unknown"; an alert that has
\* triggered triggers again on each later crossing in its direction; and a
\* crossing alert observed below, above, below triggers on the second tick
\* and again on the third.
C22_Rearmable ==
    /\ [](HasTriggered => evalAlert.initialPricePosition = "unknown")
    /\ [][evalAlert.initialPricePosition = "unknown"
             => evalAlert'.initialPricePosition = "unknown"]_vars
    /\ [][(HasTriggered /\ CrossesAgain) => ticks'[Len(ticks')].trigger]_vars
    /\ []((/\ evalAlert.condition = "crossing"
           /\ Len(ticks) >= 3
           /\ TickPosition(1) = "below"
           /\ TickPosition(2) = "above"
           /\ TickPosition(3) = "below")
          => (ticks[2].trigger /\ ticks[3].trigger))

\* A crossing alert observed below, above, below: it triggered on the
\* second and on the third tick and its initialPricePosition is "unknown".
C22_Witness ==
    /\ evalAlert.condition = "crossing"
    /\ Len(ticks) = 3
    /\ TickPosition(1) = "below" /\ TickPosition(2) = "above" /\ TickPosition(3) = "below"
    /\ ~ticks[1].trigger /\ ticks[2].trigger /\ ticks[3].trigger
    /\ evalAlert.initialPricePosition = "unknown"

\* The zone test on the price observed on tick i.
TickInside(i) == zoneTicks[i].price > Zone.low /\ zoneTicks[i].price < Zone.high

\* The step evaluates one more observation of the region alert.
RegionEvaluation == Len(zoneTicks') = Len(zoneTicks) + 1

\* C23: an inside alert triggers on exactly the ticks where the zone test
\* holds and an outside alert on exactly those where it fails; an entering
\* alert triggers on exactly the ticks where the inside flag changes from
\* false to true and an exiting alert where it changes from true to false;
\* on the ticks outside, inside, inside an entering alert triggers on tick
\* 2 only and an inside alert on ticks 2 and 3.
C23_RegionConditions ==
    /\ [](\A i \in 1..Len(zoneTicks) :
            /\ zoneTicks[i].inside = TickInside(i)
            /\ zoneAlert.condition = "inside" => (zoneTicks[i].trigger <=> TickInside(i))
            /\ zoneAlert.condition = "outside" => (zoneTicks[i].trigger <=> ~TickInside(i))
            /\ (zoneAlert.condition = "entering" /\ i > 1)
                  => (zoneTicks[i].trigger <=> (~TickInside(i - 1) /\ TickInside(i)))
            /\ (zoneAlert.condition = "exiting" /\ i > 1)
                  => (zoneTicks[i].trigger <=> (TickInside(i - 1) /\ ~TickInside(i))))
    /\ [][RegionEvaluation =>
             /\ zoneAlert.condition = "entering"
                  => (zoneTicks'[Len(zoneTicks')].trigger
                        <=> (~zoneAlert.inside /\ zoneAlert'.inside))
             /\ zoneAlert.condition = "exiting"
                  => (zoneTicks'[Len(zoneTicks')].trigger
                        <=> (zoneAlert.inside /\ ~zoneAlert'.inside))]_vars
    /\ []((/\ Len(zoneTicks) >= 3
           /\ ~TickInside(1) /\ TickInside(2) /\ TickInside(3))
          => /\ zoneAlert.condition = "entering"
                  => (~zoneTicks[1].trigger /\ zoneTicks[2].trigger /\ ~zoneTicks[3].trigger)
             /\ zoneAlert.condition = "inside"
                  => (~zoneTicks[1].trigger /\ zoneTicks[2].trigger /\ zoneTicks[3].trigger))

\* An inside alert observed outside, inside, inside: it triggered on ticks
\* 2 and 3.
C23_Witness ==
    /\ zoneAlert.condition = "inside"
    /\ Len(zoneTicks) = 3
    /\ ~TickInside(1) /\ TickInside(2) /\ TickInside(3)
    /\ ~zoneTicks[1].trigger /\ zoneTicks[2].trigger /\ zoneTicks[3].trigger

(***************************************************************************)
(* Claims on the edit dialog                                               *)
(***************************************************************************)
\* The conditions a toolType permits.
PermittedConditions(toolType) ==
    IF toolType = "vertical" THEN {"crossing"}
    ELSE IF toolType = "shape" THEN {"entering", "exiting", "inside", "outside"}
    ELSE {"crossing", "crossing_up", "crossing_down"}

\* The options of a select, as a set.
OptionsOf(select) == {selects[select].options[k] : k \in 1..Len(selects[select].options)}

\* C24: while the dialog is shown the options of its condition dropdown
\* are exactly the conditions its alert's toolType permits (crossing for
\* 'vertical'; entering, exiting, inside, outside for 'shape'; crossing,
\* crossing_up, crossing_down for any other value), and every condition
\* delivered by Save is one the delivered toolType permits.
C24_ConditionsByToolType ==
    /\ _overlay # 0 => OptionsOf(_conditionSelect) = PermittedConditions(_currentData.toolType)
    /\ \A k \in 1..Len(saved) :
          saved[k].data.condition \in PermittedConditions(saved[k].data.toolType)

\* A shape alert saved with a condition the user picked.
C24_Witness ==
    /\ Len(saved) >= 1
    /\ saved[1].data.toolType = "shape"
    /\ saved[1].data.condition = "exiting"

\* The fields of an AlertEditData that identify the alert.
IdentityOf(data) == <<data.alertId, data.symbol, data.exchange, data.isTrendline,
                      data.toolType>>

\* The dialog is closed: no current overlay, and the overlay that was
\* current is out of the document.
DialogClosed ==
    /\ _overlay' = 0
    /\ _overlay # 0 => ~overlays'[_overlay].attached

\* C25: the dialog keeps the data show() was given until it is closed or
\* shown again; a press on Save while the dialog is shown calls onSave
\* exactly once, the callback given to the latest show(), with the alertId,
\* symbol, exchange, isTrendline and toolType of that data, and closes the
\* dialog; Cancel, the close button and a click on the dialog's overlay
\* close it and call no onSave; while the dialog is hidden no step calls
\* onSave; no callback is called twice.
C25_SaveOnceThenClose ==
    /\ [][press'[1] = "show" => (_currentData' # NoData /\ _onSave' = _overlay')]_vars
    /\ [][(press'[1] # "show" /\ _overlay' # 0)
             => (_currentData' = _currentData /\ _onSave' = _onSave)]_vars
    /\ [][(press'[1] = "save" /\ _overlay # 0)
             => /\ Len(saved') = Len(saved) + 1
                /\ SubSeq(saved', 1, Len(saved)) = saved
                /\ saved'[Len(saved')].callback = _onSave
                /\ IdentityOf(saved'[Len(saved')].data) = IdentityOf(_currentData)
                /\ DialogClosed]_vars
    /\ [][(\/ press'[1] \in {"cancel", "close"}
            \/ (press'[1] = "overlay" /\ press'[2] = _overlay))
             => (saved' = saved /\ DialogClosed)]_vars
    /\ [][_overlay = 0 => saved' = saved]_vars
    /\ [](\A j, k \in 1..Len(saved) : saved[j].callback = saved[k].callback => j = k)

\* Alert a2 was saved from the second dialog shown, after the first was
\* cancelled: onSave was called once, with its identity, and the dialog is
\* closed.
C25_Witness ==
    /\ press = <<"save", 2>>
    /\ Len(saved) = 1
    /\ saved[1].callback = 2
    /\ IdentityOf(saved[1].data) = <<"a2", "RELIANCE", "undefined", TRUE, "line">>
    /\ ~overlays[1].attached
    /\ _overlay = 0

\* The step is a press on Save while the dialog shows a trendline alert.
SaveOfTrendline == press'[1] = "save" /\ _overlay # 0 /\ _currentData.isTrendline

\* C29: every Save of an alert shown with isTrendline true delivers the
\* price that was given to show(), whatever the dialog showed before.
C29_TrendlinePriceUnchanged ==
    [][SaveOfTrendline => saved'[Len(saved')].data.price = _currentData.price]_vars

\* The same for a dialog object that has not rendered a price input so far.
TrendlinePriceUnchangedWithoutInput ==
    [][(SaveOfTrendline /\ _priceInput = 0)
         => saved'[Len(saved')].data.price = _currentData.price]_vars

\* The step is a press on Save that directly follows show(): the user has
\* not touched the condition dropdown.
SaveUntouched == press[1] = "show" /\ press'[1] = "save"

\* The condition delivered by the Save of this step is the one show() was
\* called with.
DeliversOriginalCondition ==
    /\ Len(saved') = Len(saved) + 1
    /\ saved'[Len(saved')].data.condition = _currentData.condition

\* C30 as stated: Save without touching the condition dropdown delivers
\* the condition given to show(), for every toolType and condition.
C30_SaveKeepsCondition == [][SaveUntouched => DeliversOriginalCondition]_vars

\* C30: Save without touching the condition dropdown delivers the
\* condition given to show(), for every toolType and every condition that
\* toolType permits.
C30_SaveKeepsPermittedCondition ==
    [][(/\ SaveUntouched
        /\ _currentData.condition \in PermittedConditions(_currentData.toolType))
         => DeliversOriginalCondition]_vars

\* A shape alert with condition inside, saved: inside was delivered.
C30_Witness ==
    /\ press = <<"save", 1>>
    /\ Len(saved) = 1
    /\ Len(selects) = 1
    /\ saved[1].data.toolType = "shape"
    /\ saved[1].data.condition = "inside"

(***************************************************************************)
(* Claims on the time service                                              *)
(***************************************************************************)
\* The intervals that have been created and not cleared.
ActiveIntervals == {i \in 1..Len(intervals) : intervals[i]}

\* C26: at most one periodic resync interval is active at any time,
\* whatever the sequence and interleaving of initTimeService and
\* destroyTimeService calls.
C26_AtMostOneInterval == Cardinality(ActiveIntervals) <= 1

\* The guard of initTimeService works once the interval is set: a call
\* made then returns without awaiting and without creating an interval,
\* and no later step makes it create one.
GuardHoldsOnceSet ==
    /\ [][(timeCall'[1] = "init" /\ syncIntervalId # 0)
             => (initCalls'[Len(initCalls')].pc = "done" /\ intervals' = intervals)]_vars
    /\ [][\A j \in 1..Len(initCalls) :
             initCalls[j].pc = "done" => initCalls'[j].pc = "done"]_vars

(***************************************************************************)
(* Claims on useLocalStorage                                               *)
(***************************************************************************)
\* The write timers that are set and have neither fired nor been cleared.
PendingWrites == {t \in 1..Len(writeTimers) : writeTimers[t].state = "pending"}

\* The step writes to localStorage.
WriteStep == Len(writes') > Len(writes)

RemountAfterWrite ==
    /\ lsCall' = "mount"
    /\ Len(writes) >= 1
    /\ hook'.default = writes[Len(writes)].default
    /\ hook'.serialize = writes[Len(writes)].serialize

\* C28: a value the hook wrote is the value the next mount with the same
\* key, default and options starts with, of the same type.
C28_RoundTrip == [][RemountAfterWrite => value' = writes[Len(writes)].value]_vars

\* The values that do come back as written: booleans; with serialize on,
\* numbers, objects, arrays, null and strings that are not JSON literals;
\* with serialize off, strings other than 'true' and 'false'.
ComesBack(v, serialize) ==
    \/ v.type = "boolean"
    \/ serialize /\ v.type \in {"number", "object", "array", "null"}
    \/ serialize /\ v.type = "string" /\ ~JsonParses(v.text)
    \/ ~serialize /\ v.type = "string" /\ v.text \notin {"true", "false"}

RoundTripWhereItComesBack ==
    [][(/\ RemountAfterWrite
        /\ ComesBack(writes[Len(writes)].value, writes[Len(writes)].serialize))
         => value' = writes[Len(writes)].value]_vars

(***************************************************************************)
(* Claims on the notification settings of the edit dialog.                 *)
(***************************************************************************)
\* The step is a press on Save that delivers.
SaveDelivers == press'[1] = "save" /\ Len(saved') = Len(saved) + 1

\* The settings delivered by the Save of this step.
DeliveredSettings == saved'[Len(saved')].notifications

\* The toggle and the mode are delivered as last entered.
DeliversListened ==
    /\ entered.enabled # "none" =>
          DeliveredSettings.webhookEnabled = (entered.enabled = "true")
    /\ entered.mode # "none" => DeliveredSettings.webhookMode = entered.mode

\* The action and the quantity are delivered as last entered.
DeliversRead ==
    /\ entered.action # "none" => DeliveredSettings.openalgoAction = entered.action
    /\ entered.quantity # 0 => DeliveredSettings.openalgoQuantity = entered.quantity

\* C31: whatever tab is active when Save is pressed and however often
\* the tab was switched, Save delivers every notification setting the user
\* entered since show() as it was last entered.
C31_SettingsDeliveredAsEntered ==
    [][SaveDelivers => (DeliversListened /\ DeliversRead)]_vars

\* The toggle and the mode, which have change listeners, are delivered as
\* last entered from every tab.
ListenedSettingsDelivered == [][SaveDelivers => DeliversListened]_vars

\* Save pressed while the notifications tab is shown delivers every
\* setting as last entered, provided the tab was not left in between: a
\* switch away and back renders the fields anew from _notifications.
SavedFromNotificationsTab ==
    [][(SaveDelivers /\ ShowsPanel(press'[2])
          /\ overlays[press'[2]].panel.action = entered.action
          /\ overlays[press'[2]].panel.quantity = entered.quantity)
         => (DeliversListened /\ DeliversRead)]_vars


(***************************************************************************)
(* Claims on importAlerts() and updateAlert() of the store.                *)
(***************************************************************************)
\* The positions of the batch whose record importAlerts() does not skip:
\* well-formed and not triggered.
KeptRecords(records) == {i \in 1..Len(records) : ~ImportSkips(records[i])}

\* The number of entries of the map under an id.
EntriesUnder(alerts, id) == Cardinality({k \in 1..Len(alerts) : alerts[k][1] = id})

\* The alert the store holds under the id of the record at position i of
\* the batch is built from the last kept record with that id alone.
HoldsImported(alerts, records, i) ==
    LET last == CHOOSE j \in KeptRecords(records) :
                   /\ records[j].id = records[i].id
                   /\ \A k \in KeptRecords(records) : records[k].id = records[i].id => k <= j
        alert == MapGet(alerts, records[i].id)
    IN  /\ alert.id = records[last].id
        /\ alert.price = records[last].price
        /\ alert.notifications = records[last].notifications
        /\ alert.symbol = records[last].symbol
        /\ alert.exchange = records[last].exchange
        /\ alert.type = "price"
        /\ alert.toolRef = Undefined
        /\ alert.initialPricePosition = Undefined

CallOnUnknownId ==
    op'[1] \in {"removeAlert", "updateAlertPrice", "updateAlert"} /\ ~MapHas(_alerts, op'[2])

\* The step is clearAlerts() on an empty store.
ClearOfEmptyStore == op'[1] = "clearAlerts" /\ Len(_alerts) = 0

\* The step is importAlerts() with a non-array or an empty array.
ImportOfNothing == op'[1] = "importAlerts" /\ batch' = <<>>

\* The step is importAlerts() with records, all of which are skipped.
ImportOfSkippedOnly ==
    op'[1] = "importAlerts" /\ batch' # <<>> /\ KeptRecords(batch') = {}

\* The step leaves the store and alerts() as they were and fires nothing.
NothingHappens == events' = <<>> /\ _alerts' = _alerts /\ _alertsArray' = _alertsArray

\* C33: a store call that changes nothing (an unknown id, an empty store,
\* a non-array, an empty array or a batch of skipped records only) leaves
\* the store and alerts() unchanged and fires no event.
C33_NoOpCallsAreSilent ==
    [][(CallOnUnknownId \/ ClearOfEmptyStore \/ ImportOfNothing \/ ImportOfSkippedOnly)
         => NothingHappens]_vars

\* The same without the batch of skipped records only.
NoOpCallsWithoutRecords ==
    [][(CallOnUnknownId \/ ClearOfEmptyStore \/ ImportOfNothing) => NothingHappens]_vars

\* A batch of skipped records only leaves the store and alerts() unchanged
\* and fires alertsChanged once.
SkippedBatchFiresOnce ==
    [][ImportOfSkippedOnly
         => /\ _alerts' = _alerts
            /\ events' = <<<<"alertsChanged", Undefined>>>>]_vars


(***************************************************************************)
(* Claims on what the listeners of the store's events read.                *)
(***************************************************************************)
\* The alerts an array read by a listener holds under an id.
SeenUnder(array, id) == {k \in 1..Len(array) : array[k].id = id}

\* What alerts() returned to the listeners of the k-th event of the most
\* recent call reflects the mutation the event announces: the alert added
\* is in it, the alert removed is not, the alert changed is in it as
\* changed, and for alertsChanged it holds the alerts of the store.
Reflects(k) ==
    LET name == events[k][1]
        id == events[k][2]
    IN  /\ name = "alertAdded" => SeenUnder(seen[k], id) # {}
        /\ name = "alertRemoved" => SeenUnder(seen[k], id) = {}
        /\ name = "alertChanged" =>
              /\ SeenUnder(seen[k], id) # {}
              /\ \A j \in SeenUnder(seen[k], id) : seen[k][j] = MapGet(_alerts, id)
        /\ name = "alertsChanged" =>
              /\ Len(seen[k]) = Len(_alerts)
              /\ \A e \in 1..Len(_alerts) :
                    \E j \in 1..Len(seen[k]) : seen[k][j] = _alerts[e][2]

\* C34: whenever a listener of alertAdded, alertRemoved, alertChanged or
\* alertsChanged is called, alerts() already reflects the mutation the
\* event announces.
C34_ListenersSeeTheMutation == \A k \in 1..Len(events) : Reflects(k)

\* The same for the listeners of alertChanged and alertsChanged alone.
ChangeListenersSeeTheMutation ==
    \A k \in 1..Len(events) : events[k][1] \in {"alertChanged", "alertsChanged"} => Reflects(k)


(***************************************************************************)
(* Claims on updateAlert().                                                *)
(***************************************************************************)
\* The step is updateAlert(id, price, condition, notifications) on an id
\* the store holds.
UpdateOfStored == op'[1] = "updateAlert" /\ MapHas(_alerts, op'[2])

\* C35: updateAlert() on a stored id sets the alert's price and condition
\* to the arguments, replaces its notifications by the argument when one is
\* given and leaves them otherwise, leaves its id, type, symbol, exchange,
\* initialPricePosition and tool reference as they were, and leaves every
\* other alert of the store as it was, in the same place of the map.
C35_UpdateAlertFrame ==
    [][UpdateOfStored =>
         LET id == op'[2]
             old == MapGet(_alerts, id)
             new == MapGet(_alerts', id)
         IN  /\ new.price = op'[3][1]
             /\ new.condition = op'[3][2]
             /\ new.notifications = IF op'[3][3] # Undefined THEN op'[3][3]
                                    ELSE old.notifications
             /\ new.id = old.id
             /\ new.type = old.type
             /\ new.symbol = old.symbol
             /\ new.exchange = old.exchange
             /\ new.initialPricePosition = old.initialPricePosition
             /\ new.toolRef = old.toolRef
             /\ Len(_alerts') = Len(_alerts)
             /\ \A k \in 1..Len(_alerts) :
                   _alerts[k][1] # id => _alerts'[k] = _alerts[k]]_vars

\* updateAlert() was called without notifications on an imported alert that
\* the engine has since marked: the alert has the new price and condition
\* and still its notifications, symbol and position, next to another alert.
C35_Witness ==
    /\ op = <<"updateAlert", Hex(7), <<2, "crossing", Undefined>>>>
    /\ Len(_alerts) = 2
    /\ MapGet(_alerts, Hex(7)) =
          [ImportedAlert(FullRecord(Hex(7))) EXCEPT !.price = 2,
                                                    !.condition = "crossing",
                                                    !.initialPricePosition = "above"]


(***************************************************************************)
(* Claims on destroyTimeService() and syncTimeWithAPI().                   *)
(***************************************************************************)
\* C36: from the return of destroyTimeService() until the next call of
\* initTimeService(), no resync interval exists (so no periodic resync
\* runs), also when destroyTimeService() was called while a call of
\* initTimeService() was awaiting its initial sync.
C36_NoIntervalAfterDestroy == afterDestroy => ActiveIntervals = {}

\* destroyTimeService() clears the interval syncIntervalId names and
\* resets syncIntervalId.
DestroyClearsNamedInterval ==
    [][timeCall'[1] = "destroy"
         => /\ syncIntervalId' = 0
            /\ syncIntervalId # 0 => ~intervals'[syncIntervalId]]_vars

\* With no initTimeService() call awaiting and no interval left behind by
\* overlapping calls, no interval exists after destroyTimeService().
NoIntervalAfterDestroyOfSettledInit ==
    [][(/\ timeCall'[1] = "destroy"
        /\ \A j \in 1..Len(initCalls) : initCalls[j].pc = "done"
        /\ ActiveIntervals \subseteq {syncIntervalId})
         => ActiveIntervals' = {}]_vars


\* The case C36 names, with a single initTimeService() call in the whole
\* behaviour (no overlapping calls): it does not hold either, the call
\* creates its interval when it resumes after destroyTimeService().
NoIntervalAfterDestroyOfSingleInit ==
    (afterDestroy /\ Len(initCalls) = 1) => ActiveIntervals = {}


\* The time-sync requests that have been issued and have not ended.
InFlight == {k \in 1..Len(syncCalls) : syncCalls[k] = "fetch"}

\* The step calls syncTimeWithAPI(): from the application, from an
\* interval, or from initTimeService() past its guard.
CallsSync ==
    \/ timeCall'[1] \in {"sync", "tick"}
    \/ timeCall'[1] = "init" /\ syncIntervalId = 0

\* The step is the end of a sync whose request failed or threw.
SyncFails ==
    /\ timeCall'[1] = "syncSettles"
    /\ syncCalls'[timeCall'[2]] \in {"failed", "throws"}

\* C37: at most one time-sync request is in flight at any time; a
\* syncTimeWithAPI() call made while a sync is running issues no request
\* and returns the synced flag as it is; the in-progress flag is cleared
\* when the running sync ends, however it ends; and a sync that failed
\* leaves timeOffset, lastSyncTime and the synced flag as they were.
C37_OneSyncInFlight ==
    /\ [](Cardinality(InFlight) <= 1)
    /\ [](isSyncing <=> InFlight # {})
    /\ [][(CallsSync /\ isSyncing)
            => /\ syncCalls' = syncCalls
               /\ syncResult' = (IF isSynced THEN "true" ELSE "false")
               /\ UNCHANGED <<isSyncing, isSynced, timeOffset, lastSyncTime>>]_vars
    /\ [][(CallsSync /\ ~isSyncing) => Len(syncCalls') = Len(syncCalls) + 1]_vars
    /\ [][timeCall'[1] = "syncSettles" => (isSyncing /\ ~isSyncing')]_vars
    /\ [][SyncFails => (/\ UNCHANGED <<timeOffset, lastSyncTime, isSynced>>
                        /\ syncResult' = "false")]_vars

\* After one sync succeeded and while a second one is running, the
\* application called syncTimeWithAPI(): no third request was issued and the
\* call returned true.
C37_Witness ==
    /\ timeCall = <<"sync", 0>>
    /\ syncCalls = <<"ok", "fetch">>
    /\ isSyncing
    /\ isSynced
    /\ syncResult = "true"

\* The first sync succeeded, the second threw: the offset and the time of
\* the last sync are still those of the first, and the flag is cleared.
FailedSyncWitness ==
    /\ timeCall = <<"syncSettles", 2>>
    /\ syncCalls = <<"ok", "throws">>
    /\ timeOffset = 1 /\ lastSyncTime = 1 /\ isSynced
    /\ ~isSyncing


(***************************************************************************)
(* Claims on the option-chain modal.                                       *)
(***************************************************************************)
\* No request of the modal is outstanding.
AllSettled == \A f \in 1..Len(fetches) : fetches[f].state # "pending"

\* Request f was made for the underlying and the expiry now selected.
ForSelection(f) ==
    fetches[f].underlying = underlying /\ fetches[f].expiry = selectedExpiry

\* C38: once every request has settled, the chain shown is one that was
\* fetched for the underlying and the expiry now selected; and a response
\* to a request made for another underlying or expiry leaves the chain
\* shown, or its cleared state, as it is.
C38_ChainOfCurrentSelection ==
    /\ []((AllSettled /\ optionChain # 0) => ForSelection(optionChain))
    /\ [][(modalStep'[1] = "chain" /\ ~ForSelection(modalStep'[2]))
            => optionChain' = optionChain]_vars

\* A response to a request made for the selection of the moment becomes
\* the chain shown.
CurrentResponseIsShown ==
    [][(modalStep'[1] = "chain" /\ ForSelection(modalStep'[2]))
         => optionChain' = modalStep'[2]]_vars

\* The first part of C38 alone: the chain shown once every request has
\* settled.  It does not hold either.
SettledChainOfSelection == (AllSettled /\ optionChain # 0) => ForSelection(optionChain)


====
